---- MODULE Spec2Model ----
(***************************************************************************)
(* A model of the OEV searcher bot of api3dao/oev-orbit-bot-example.        *)
(*                                                                         *)
(* The specifications share the variables below:                           *)
(*   SpecReplay  - buildOevNetworkState replaying a cache of auction logs  *)
(*   SpecSeeker  - runAttemptLiquidationLoop of src/src/oev-seeker.ts with *)
(*                 its findOevLiquidation / attemptLiquidation invocations *)
(*   SpecBot     - runBot of src/src/oev-bot.ts (entry of src/src/index.ts)*)
(*   SpecWatch   - runAccountFetcherLoop and the watch-list step of runBot *)
(*   SpecFunctions - calls of the pure functions (encodeBidDetails,        *)
(*                 decodeBidDetails, min, getPercentageValue, the filter,  *)
(*                 sort and scan of findOevLiquidation, getAccountsToWatch)*)
(***************************************************************************)
EXTENDS Integers, Sequences, FiniteSets, TLC

VARIABLES
    clock,               \* Math.trunc(Date.now() / 1000)
    ticks,               \* number of clock advances taken (bounds the run)
    oevLogs,             \* storage.oevNetworkData.logs
    currentlyActiveBid,  \* storage.currentlyActiveBid: {} is null, {bid} a bid
    loop,                \* runAttemptLiquidationLoop: its position
    inv,                 \* the invocations of attemptLiquidation / findOevLiquidation
    chainBids,           \* auction house: bids placed with placeBidWithExpiration
    awarded,             \* auction house: ids of the bids it has awarded
    txs,                 \* transactions and static calls the agent has issued
    chainLogs,           \* auction house: the events it has emitted, one a block
    lastFetchedBlock,    \* storage.oevNetworkData.lastFetchedBlock
    lastBlock,           \* storage.targetChainData.lastBlock
    borrowers,           \* storage.targetChainData.borrowers
    fetcher,             \* runAccountFetcherLoop: its position
    input,               \* the arguments of a function under call
    output               \* what the call returned: {} until it has

timeVars == <<clock, ticks>>
seekerVars == <<currentlyActiveBid, loop, inv, chainBids, awarded, txs>>
botVars == <<chainLogs, lastFetchedBlock, lastBlock>>
auxVars == <<borrowers, fetcher, input, output>>
vars == <<clock, ticks, oevLogs, currentlyActiveBid, loop, inv, chainBids, awarded, txs,
          chainLogs, lastFetchedBlock, lastBlock, borrowers, fetcher, input, output>>

----------------------------------------------------------------------------
(* Bounds of the model *)

MaxReplayTicks == 2
MaxLogs == 4
MaxBids == 3

(* Program constants *)

BID_CONDITION == [LTE |-> 0, GTE |-> 1]
minBidTimeToLiveSeconds == 15
OEV_BID_VALIDITY == 30 * 60
targetChainDataInitialBlock == 657831

(* Inputs *)

ConditionTypes == {BID_CONDITION.LTE, BID_CONDITION.GTE}
ConditionValues == {2}
AwardValues == {1, 2, 3}
ReplayClockSteps == {minBidTimeToLiveSeconds, OEV_BID_VALIDITY - minBidTimeToLiveSeconds}

Null == {}

----------------------------------------------------------------------------
(* The decoded auction-network logs (OevNetworkLog) *)

PlacedBidLog(id, ct, cv, exp, at) ==
    [eventName |-> "PlacedBid", bidId |-> id, conditionType |-> ct,
     conditionValue |-> cv, expirationTimestamp |-> exp, at |-> at]

AwardedBidLog(id, v, at) ==
    [eventName |-> "AwardedBid", bidId |-> id, value |-> v, at |-> at]

ExpeditedBidExpirationLog(id, exp, at) ==
    [eventName |-> "ExpeditedBidExpiration", bidId |-> id,
     expirationTimestamp |-> exp, at |-> at]

----------------------------------------------------------------------------
(* buildOevNetworkState: the Map of bids is a sequence in insertion order *)

HasBid(bids, id) == \E i \in DOMAIN bids : bids[i].bidId = id

\* bids.set(log.args.bidId, {log, status: 'active', expirationTimestamp})
SetPlacedBid(bids, log) ==
    LET bid == [bidId |-> log.bidId, log |-> log, status |-> "active",
                expirationTimestamp |-> log.expirationTimestamp]
    IN  IF HasBid(bids, log.bidId)
        THEN [i \in DOMAIN bids |-> IF bids[i].bidId = log.bidId THEN bid ELSE bids[i]]
        ELSE Append(bids, bid)

\* the two `continue` tests in front of bid.status = 'lost'
SkipsLossFlipped(bid, value) ==
    \/ bid.log.conditionType = BID_CONDITION.LTE /\ value < bid.log.conditionValue
    \/ bid.log.conditionType = BID_CONDITION.GTE /\ value > bid.log.conditionValue

SkipsLoss(bid, value) ==
    \/ bid.log.conditionType = BID_CONDITION.LTE /\ value > bid.log.conditionValue
    \/ bid.log.conditionType = BID_CONDITION.GTE /\ value < bid.log.conditionValue

\* case 'AwardedBid'
ApplyAwardedBid(bids, log) ==
    [i \in DOMAIN bids |->
        IF bids[i].bidId = log.bidId THEN [bids[i] EXCEPT !.status = "awarded"]
        ELSE IF SkipsLoss(bids[i], log.value) THEN bids[i]
        ELSE [bids[i] EXCEPT !.status = "lost"]]

\* case 'ExpeditedBidExpiration': bid.expirationTimestamp is a field of the
\* Bid object made at 'PlacedBid', bid.log.args is left alone
ApplyExpeditedIntoLog(bids, log) ==
    [i \in DOMAIN bids |->
        IF bids[i].bidId = log.bidId
        THEN [bids[i] EXCEPT !.expirationTimestamp = log.expirationTimestamp,
                             !.log.expirationTimestamp = log.expirationTimestamp]
        ELSE bids[i]]

ApplyExpedited(bids, log) ==
    [i \in DOMAIN bids |->
        IF bids[i].bidId = log.bidId
        THEN [bids[i] EXCEPT !.expirationTimestamp = log.expirationTimestamp]
        ELSE bids[i]]

\* one turn of the for loop over oevNetworkData.logs
ReplayLog(bids, log) ==
    CASE log.eventName = "PlacedBid" -> SetPlacedBid(bids, log)
      [] log.eventName = "AwardedBid" -> ApplyAwardedBid(bids, log)
      [] log.eventName = "ExpeditedBidExpiration" -> ApplyExpedited(bids, log)

RECURSIVE Replay(_)
Replay(logs) ==
    IF logs = <<>> THEN <<>>
    ELSE ReplayLog(Replay(SubSeq(logs, 1, Len(logs) - 1)), logs[Len(logs)])

\* bids.get(log.args.bidId)! is undefined: the assignment to it throws
ReplayThrows(logs) ==
    \E i \in DOMAIN logs :
        /\ logs[i].eventName # "PlacedBid"
        /\ ~HasBid(Replay(SubSeq(logs, 1, i - 1)), logs[i].bidId)

\* "Update status of all expired or soon-to-be-expired bids."
ExpirePassNever(bids, now) == bids

ExpirePassAtLimit(bids, now) ==
    [i \in DOMAIN bids |->
        IF /\ bids[i].status = "active"
           /\ bids[i].expirationTimestamp - now <= minBidTimeToLiveSeconds
        THEN [bids[i] EXCEPT !.status = "expired"]
        ELSE bids[i]]

ExpirePass(bids, now) ==
    [i \in DOMAIN bids |->
        IF /\ bids[i].status = "active"
           /\ bids[i].expirationTimestamp - now < minBidTimeToLiveSeconds
        THEN [bids[i] EXCEPT !.status = "expired"]
        ELSE bids[i]]

buildOevNetworkState(logs, now) == ExpirePass(Replay(logs), now)

\* oevNetworkData.logs after a call: a Bid holds its PlacedBid log by
\* reference (`log`), so what the call wrote through bid.log is in the cache
LogsAfterBuild(logs, now) ==
    LET bids == buildOevNetworkState(logs, now)
        held(i) == /\ logs[i].eventName = "PlacedBid"
                   /\ \A j \in DOMAIN logs :
                         (logs[j].eventName = "PlacedBid" /\ logs[j].bidId = logs[i].bidId)
                            => j <= i
    IN  [i \in DOMAIN logs |->
            IF held(i)
            THEN bids[CHOOSE k \in DOMAIN bids : bids[k].bidId = logs[i].bidId].log
            ELSE logs[i]]

ActiveBids(bids) == {i \in DOMAIN bids : bids[i].status = "active"}

BidOf(bids, id) == bids[CHOOSE i \in DOMAIN bids : bids[i].bidId = id]

----------------------------------------------------------------------------
(* The auction house appending events of this bidder and topic to the cache *)

PlacedIds(logs) == {logs[i].bidId : i \in {j \in DOMAIN logs : logs[j].eventName = "PlacedBid"}}
AwardedIds(logs) == {logs[i].bidId : i \in {j \in DOMAIN logs : logs[j].eventName = "AwardedBid"}}

\* the expiration the auction house holds for a placed bid: that of its
\* PlacedBid event, or of its latest ExpeditedBidExpiration event
ChainExpiration(logs, id) ==
    LET own == {j \in DOMAIN logs :
                    logs[j].bidId = id /\ logs[j].eventName # "AwardedBid"}
        last == CHOOSE j \in own : \A k \in own : k <= j
    IN  logs[last].expirationTimestamp

LogPlacedBid ==
    /\ Len(oevLogs) < MaxLogs
    /\ Cardinality(PlacedIds(oevLogs)) < MaxBids
    /\ \E ct \in ConditionTypes, cv \in ConditionValues :
          oevLogs' = Append(oevLogs,
              PlacedBidLog(Cardinality(PlacedIds(oevLogs)) + 1, ct, cv,
                           clock + OEV_BID_VALIDITY, clock))
    /\ UNCHANGED <<auxVars, timeVars, seekerVars, botVars>>

\* the PlacedBid event of a bid
PlacedLogOf(logs, id) ==
    logs[CHOOSE j \in DOMAIN logs : logs[j].bidId = id /\ logs[j].eventName = "PlacedBid"]

\* the auctioneer's reading of a bid condition
Satisfies(conditionType, conditionValue, v) ==
    \/ conditionType = BID_CONDITION.GTE /\ v >= conditionValue
    \/ conditionType = BID_CONDITION.LTE /\ v <= conditionValue

\* the auctioneer awards an open bid with a value that satisfies its condition
LogAwardedBid ==
    /\ Len(oevLogs) < MaxLogs
    /\ \E id \in PlacedIds(oevLogs) \ AwardedIds(oevLogs), v \in AwardValues :
          /\ clock <= ChainExpiration(oevLogs, id)
          /\ Satisfies(PlacedLogOf(oevLogs, id).conditionType,
                       PlacedLogOf(oevLogs, id).conditionValue, v)
          /\ oevLogs' = Append(oevLogs, AwardedBidLog(id, v, clock))
    /\ UNCHANGED <<auxVars, timeVars, seekerVars, botVars>>

LogExpeditedBidExpiration ==
    /\ Len(oevLogs) < MaxLogs
    /\ \E id \in PlacedIds(oevLogs) \ AwardedIds(oevLogs) :
          /\ clock + minBidTimeToLiveSeconds < ChainExpiration(oevLogs, id)
          /\ oevLogs' = Append(oevLogs,
                ExpeditedBidExpirationLog(id, clock + minBidTimeToLiveSeconds, clock))
    /\ UNCHANGED <<auxVars, timeVars, seekerVars, botVars>>

ReplayTick ==
    /\ ticks < MaxReplayTicks
    /\ \E d \in ReplayClockSteps : clock' = clock + d
    /\ ticks' = ticks + 1
    /\ UNCHANGED <<auxVars, oevLogs, seekerVars, botVars>>

----------------------------------------------------------------------------
InitStore ==
    /\ clock = 0
    /\ ticks = 0
    /\ oevLogs = <<>>
    /\ currentlyActiveBid = Null
    /\ loop = [pc |-> "idle", cur |-> 0, start |-> 0]
    /\ inv = <<>>
    /\ chainBids = <<>>
    /\ awarded = {}
    /\ txs = {}
    /\ chainLogs = <<>>
    /\ lastFetchedBlock = 0
    /\ lastBlock = targetChainDataInitialBlock
    /\ fetcher = [pc |-> "off", snapshot |-> <<>>, updates |-> 0]
    /\ input = Null
    /\ output = Null

InitCommon == InitStore /\ borrowers = <<>>

InitReplay == InitCommon

NextReplay ==
    \/ LogPlacedBid
    \/ LogAwardedBid
    \/ LogExpeditedBidExpiration
    \/ ReplayTick

SpecReplay == InitReplay /\ [][NextReplay]_vars

----------------------------------------------------------------------------
(* src/src/oev-seeker.ts: runAttemptLiquidationLoop and the invocations of
   attemptLiquidation and findOevLiquidation it starts.  go() with
   totalTimeoutMs returns to the loop after the timeout, the function it
   wrapped keeps running: an invocation is a record of inv that lives on. *)

MaxInvocations == 2
MaxSeekerTicks == 2
MaxAccounts == 2

totalTimeoutSeconds == 1 * 60
reportFulfillmentDelaySeconds == 300
\* parseEther('0.01'), amounts counted in units of 0.01 ether
MIN_LIQUIDATION_PROFIT_USD == 1

SeekerClockSteps == {totalTimeoutSeconds, OEV_BID_VALIDITY}
ProfitsUsd == {MIN_LIQUIDATION_PROFIT_USD - 1, MIN_LIQUIDATION_PROFIT_USD,
               MIN_LIQUIDATION_PROFIT_USD + 1}

Final == {"expired", "notAwarded", "lowProfit", "reported", "threw",
          "noShortfall", "noOpportunity", "placed"}

\* what the simulations return for one account with shortfall
AccountOutcomes ==
    [hasEthBorrow : {TRUE}, liquidate : {"ok"}, profitEth : {1, 2},
     profitUsd : {MIN_LIQUIDATION_PROFIT_USD + 1}]
    \cup [hasEthBorrow : {TRUE}, liquidate : {"ok"}, profitEth : {1},
          profitUsd : {MIN_LIQUIDATION_PROFIT_USD}]
    \cup [hasEthBorrow : {TRUE}, liquidate : {"revert"}, profitEth : {0}, profitUsd : {0}]
    \cup [hasEthBorrow : {FALSE}, liquidate : {"ok"}, profitEth : {0}, profitUsd : {0}]

\* accountsWithShortfall, sorted, with what the simulations return for each
ShortfallLists == UNION {[1..n -> AccountOutcomes] : n \in 0..MaxAccounts}

\* bid: the bid the invocation read from the store or placed; best and
\* reverted: bestLiquidation and whether a liquidate simulation reverted;
\* profitUsd: what the staticCall after the award returned; sleptAt: when
\* sleep(300_000) began
Invocation(kind, pc, bid) ==
    [kind |-> kind, pc |-> pc, bid |-> bid, best |-> {}, reverted |-> FALSE,
     profitUsd |-> {}, sleptAt |-> 0]

\* a call the agent issued: by is the invocation, note what led to it (the
\* profitUsd verified before an aggregate3Value, whether a liquidate
\* simulation had reverted before a placeBidWithExpiration)
Tx(kind, bidId, by, note) == [kind |-> kind, bidId |-> bidId, by |-> by, note |-> note]

TheBid(slot) == CHOOSE b \in slot : TRUE

\* timestampNow >= expirationTimestamp
BidExpiredSwapped(now, expirationTimestamp) == expirationTimestamp >= now

BidExpired(now, expirationTimestamp) == now >= expirationTimestamp

\* the store's currentlyActiveBid once an award has been detected
SlotAfterAwardKept(slot) == slot

SlotAfterAward(slot) == Null

\* profitUsd <= MIN_LIQUIDATION_PROFIT_USD
ProfitTooLowNever(profitUsd) == FALSE

ProfitTooLow(profitUsd) == profitUsd <= MIN_LIQUIDATION_PROFIT_USD

\* attemptLiquidation up to its first await: the expiry check, then
\* oevNetworkProvider.getBlockNumber() is issued
AttemptLiquidationStart ==
    LET bid == TheBid(currentlyActiveBid)
        i == Len(inv) + 1
    IN  IF BidExpired(clock, bid.expirationTimestamp)
        THEN /\ currentlyActiveBid' = Null
             /\ inv' = Append(inv, Invocation("attempt", "expired", {bid}))
        ELSE /\ inv' = Append(inv, Invocation("attempt", "awaitAward", {bid}))
             /\ UNCHANGED currentlyActiveBid

\* findOevLiquidation up to its first await
FindOevLiquidationStart ==
    /\ inv' = Append(inv, Invocation("find", "scanning", {}))
    /\ UNCHANGED currentlyActiveBid

\* one turn of the while loop up to `await go(...)`, in a run of at most
\* `turns` turns
LoopIterateUpTo(turns) ==
    /\ loop.pc = "idle"
    /\ Len(inv) < turns
    /\ IF currentlyActiveBid # Null THEN AttemptLiquidationStart
                                    ELSE FindOevLiquidationStart
    /\ loop' = [pc |-> "awaiting", cur |-> Len(inv) + 1, start |-> clock]
    /\ UNCHANGED <<auxVars, timeVars, oevLogs, botVars, chainBids, awarded, txs>>

LoopIterate == LoopIterateUpTo(MaxInvocations)

\* go() settles when the function it wraps has returned or thrown
GoSettledOnReturn(pc) == pc \in Final \ {"threw"}

GoSettled(pc) == pc \in Final

\* go() resolves with the function's result or error; sleep(frequencyMs)
LoopResume ==
    /\ loop.pc = "awaiting"
    /\ GoSettled(inv[loop.cur].pc)
    /\ loop' = [pc |-> "idle", cur |-> 0, start |-> 0]
    /\ UNCHANGED <<auxVars, timeVars, oevLogs, botVars, currentlyActiveBid, inv, chainBids, awarded, txs>>

\* the timer of { totalTimeoutMs: 1 * 60 * 1000 } has fired
TotalTimeoutNever(now, start) == FALSE
TotalTimeout(now, start) == now - start >= totalTimeoutSeconds

\* go() resolves with its timeout error; the function keeps running
LoopTimeout ==
    /\ loop.pc = "awaiting"
    /\ ~GoSettled(inv[loop.cur].pc)
    /\ TotalTimeout(clock, loop.start)
    /\ loop' = [pc |-> "idle", cur |-> 0, start |-> 0]
    /\ UNCHANGED <<auxVars, timeVars, oevLogs, botVars, currentlyActiveBid, inv, chainBids, awarded, txs>>

\* bidAwardEvent is not null after the queryFilter loop
FoundAwardAlways(bidId, awardedIds) == TRUE
FoundAward(bidId, awardedIds) == bidId \in awardedIds

\* "Check if the bid is awarded.": getBlockNumber and the queryFilter loop
\* return; on an award the slot is cleared and the staticCall is issued
AttemptAwardCheck(i) ==
    /\ inv[i].kind = "attempt" /\ inv[i].pc = "awaitAward"
    /\ LET bid == TheBid(inv[i].bid)
       IN  \/ /\ inv' = [inv EXCEPT ![i].pc = "threw"]
              /\ UNCHANGED <<currentlyActiveBid, txs>>
           \/ /\ ~FoundAward(bid.bidId, awarded)
              /\ inv' = [inv EXCEPT ![i].pc = "notAwarded"]
              /\ UNCHANGED <<currentlyActiveBid, txs>>
           \/ /\ FoundAward(bid.bidId, awarded)
              /\ currentlyActiveBid' = SlotAfterAward(currentlyActiveBid)
              /\ inv' = [inv EXCEPT ![i].pc = "awaitVerify"]
              /\ txs' = txs \cup {Tx("staticCall", bid.bidId, i, 0)}
    /\ UNCHANGED <<auxVars, timeVars, oevLogs, botVars, loop, chainBids, awarded>>

\* multicall3.aggregate3Value.staticCall returns; unless the profit is too
\* low the aggregate3Value transaction is issued
AttemptVerify(i) ==
    /\ inv[i].kind = "attempt" /\ inv[i].pc = "awaitVerify"
    /\ \/ /\ inv' = [inv EXCEPT ![i].pc = "threw"]
          /\ UNCHANGED txs
       \/ \E p \in ProfitsUsd :
            IF ProfitTooLow(p)
            THEN /\ inv' = [inv EXCEPT ![i].pc = "lowProfit", ![i].profitUsd = {p}]
                 /\ UNCHANGED txs
            ELSE /\ inv' = [inv EXCEPT ![i].pc = "awaitExec", ![i].profitUsd = {p}]
                 /\ txs' = txs \cup {Tx("aggregate3Value", TheBid(inv[i].bid).bidId, i, p)}
    /\ UNCHANGED <<auxVars, timeVars, oevLogs, botVars, currentlyActiveBid, loop, chainBids, awarded>>

\* the transaction and tx.wait(1) return; sleep(300_000) starts
AttemptExecuted(i) ==
    /\ inv[i].kind = "attempt" /\ inv[i].pc = "awaitExec"
    /\ \/ inv' = [inv EXCEPT ![i].pc = "threw"]
       \/ inv' = [inv EXCEPT ![i].pc = "sleeping", ![i].sleptAt = clock]
    /\ UNCHANGED <<auxVars, timeVars, oevLogs, botVars, currentlyActiveBid, loop, chainBids, awarded, txs>>

\* await sleep(300_000) has resolved
SleepOverAtOnce(now, sleptAt) == TRUE
SleepOver(now, sleptAt) == now - sleptAt >= reportFulfillmentDelaySeconds

\* the sleep is over: reportFulfillment
AttemptReport(i) ==
    /\ inv[i].kind = "attempt" /\ inv[i].pc = "sleeping"
    /\ SleepOver(clock, inv[i].sleptAt)
    /\ txs' = txs \cup {Tx("reportFulfillment", TheBid(inv[i].bid).bidId, i, 0)}
    /\ \/ inv' = [inv EXCEPT ![i].pc = "threw", ![i].sleptAt = 0]
       \/ inv' = [inv EXCEPT ![i].pc = "reported", ![i].sleptAt = 0]
    /\ UNCHANGED <<auxVars, timeVars, oevLogs, botVars, currentlyActiveBid, loop, chainBids, awarded>>

\* the for loop over accountsWithShortfall from account k on
\* profitEth > bestLiquidation.profitEth
MoreProfitOrEqual(a, bestLiquidation) == a.profitEth >= bestLiquidation.profitEth
MoreProfit(a, bestLiquidation) == a.profitEth > bestLiquidation.profitEth

\* the liquidate simulation of account k was issued before the rest of the
\* scan
Simulated(k, rest) == [rest EXCEPT !.simulated = @ \cup {k}]

\* hasEthBorrow: assetsInAccount.find(oToken === oEtherV2) found an asset;
\* simulated: the accounts whose liquidate simulation was issued
RECURSIVE ScanAccounts(_, _, _)
ScanAccounts(accounts, k, best) ==
    IF k > Len(accounts) THEN [best |-> best, reverted |-> FALSE, simulated |-> {}]
    ELSE LET a == accounts[k]
         IN  IF ~a.hasEthBorrow THEN ScanAccounts(accounts, k + 1, best)
             ELSE IF a.liquidate = "revert"
                  THEN [best |-> best, reverted |-> TRUE, simulated |-> {k}]
             ELSE IF ProfitTooLow(a.profitUsd)
                  THEN Simulated(k, ScanAccounts(accounts, k + 1, best))
             ELSE IF best = {} \/ MoreProfit(a, TheBid(best))
                  THEN Simulated(k, ScanAccounts(accounts, k + 1, {a}))
                  ELSE Simulated(k, ScanAccounts(accounts, k + 1, best))

\* where findOevLiquidation stands after the scan of these accounts
ScanOutcome(accounts) ==
    LET scan == ScanAccounts(accounts, 1, {})
    IN  [pc |-> IF accounts = <<>> THEN "noShortfall"
                ELSE IF scan.best = {} THEN "noOpportunity"
                ELSE "placing",
         best |-> scan.best,
         reverted |-> scan.best # {} /\ scan.reverted,
         simulated |-> scan.simulated]

ScanOutcomes == {ScanOutcome(accounts) : accounts \in ShortfallLists}

\* findOevLiquidation from its first await to oevNetworkProvider.getBlockNumber()
FindScan(i) ==
    /\ inv[i].kind = "find" /\ inv[i].pc = "scanning"
    /\ \/ inv' = [inv EXCEPT ![i].pc = "threw"]
       \/ \E scan \in ScanOutcomes :
            inv' = [inv EXCEPT ![i].pc = scan.pc, ![i].best = scan.best,
                              ![i].reverted = scan.reverted]
    /\ UNCHANGED <<auxVars, timeVars, oevLogs, botVars, currentlyActiveBid, loop, chainBids, awarded, txs>>

\* getBlockNumber returns; placeBidWithExpiration is submitted
FindPlaceBid(i) ==
    /\ inv[i].kind = "find" /\ inv[i].pc = "placing"
    /\ \/ /\ inv' = [inv EXCEPT ![i].pc = "threw", ![i].best = {}, ![i].reverted = FALSE]
          /\ UNCHANGED <<chainBids, txs>>
       \/ /\ Len(chainBids) < MaxBids
          /\ LET bid == [bidId |-> Len(chainBids) + 1,
                         expirationTimestamp |-> clock + OEV_BID_VALIDITY]
             IN  /\ chainBids' = Append(chainBids, bid)
                 /\ txs' = txs \cup {Tx("placeBidWithExpiration", bid.bidId, i,
                                        IF inv[i].reverted THEN 1 ELSE 0)}
                 /\ inv' = [inv EXCEPT ![i].pc = "awaitBidTx", ![i].bid = {bid},
                                       ![i].best = {}, ![i].reverted = FALSE]
    /\ UNCHANGED <<auxVars, timeVars, oevLogs, botVars, currentlyActiveBid, loop, awarded>>

\* placeBidTx.wait(1) returns; the bid is stored as currentlyActiveBid
FindBidConfirmed(i) ==
    /\ inv[i].kind = "find" /\ inv[i].pc = "awaitBidTx"
    /\ \/ /\ inv' = [inv EXCEPT ![i].pc = "threw"]
          /\ UNCHANGED currentlyActiveBid
       \/ /\ inv' = [inv EXCEPT ![i].pc = "placed"]
          /\ currentlyActiveBid' = inv[i].bid
    /\ UNCHANGED <<auxVars, timeVars, oevLogs, botVars, loop, chainBids, awarded, txs>>

\* the auctioneer awards a bid that has not expired
ChainAward ==
    /\ \E k \in DOMAIN chainBids :
          /\ chainBids[k].bidId \notin awarded
          /\ clock <= chainBids[k].expirationTimestamp
          /\ awarded' = awarded \cup {chainBids[k].bidId}
    /\ UNCHANGED <<auxVars, timeVars, oevLogs, botVars, currentlyActiveBid, loop, inv, chainBids, txs>>

\* the clock advances by the loop's timeout while the loop awaits an
\* invocation, or by the validity of a bid once a bid has been placed (until
\* then only loop.start refers to the clock)
SeekerTick ==
    /\ ticks < MaxSeekerTicks
    /\ \E d \in SeekerClockSteps :
          /\ d = totalTimeoutSeconds =>
                /\ loop.pc = "awaiting"
                /\ inv[loop.cur].pc \notin Final
                /\ clock - loop.start < totalTimeoutSeconds
          /\ d = OEV_BID_VALIDITY => chainBids # <<>>
          /\ clock' = clock + d
    /\ ticks' = ticks + 1
    /\ UNCHANGED <<auxVars, oevLogs, seekerVars, botVars>>

\* the store after initializeTargetChainData read the accounts of the file
InitSeeker == InitStore /\ borrowers = [k \in 1..MaxAccounts |-> k]

NextSeeker ==
    \/ LoopIterate
    \/ LoopResume
    \/ LoopTimeout
    \/ \E i \in DOMAIN inv : AttemptAwardCheck(i)
    \/ \E i \in DOMAIN inv : AttemptVerify(i)
    \/ \E i \in DOMAIN inv : AttemptExecuted(i)
    \/ \E i \in DOMAIN inv : AttemptReport(i)
    \/ \E i \in DOMAIN inv : FindScan(i)
    \/ \E i \in DOMAIN inv : FindPlaceBid(i)
    \/ \E i \in DOMAIN inv : FindBidConfirmed(i)
    \/ ChainAward
    \/ SeekerTick

SpecSeeker == InitSeeker /\ [][NextSeeker]_vars

\* the same loop for one turn more: a bid is placed, an attempt for it outlives
\* its turn, and the loop takes two further turns
MaxDeepInvocations == MaxInvocations + 1

LoopIterateDeep == LoopIterateUpTo(MaxDeepInvocations)

NextSeekerDeep ==
    \/ LoopIterateDeep
    \/ LoopResume
    \/ LoopTimeout
    \/ \E i \in DOMAIN inv : AttemptAwardCheck(i)
    \/ \E i \in DOMAIN inv : AttemptVerify(i)
    \/ \E i \in DOMAIN inv : AttemptExecuted(i)
    \/ \E i \in DOMAIN inv : AttemptReport(i)
    \/ \E i \in DOMAIN inv : FindScan(i)
    \/ \E i \in DOMAIN inv : FindPlaceBid(i)
    \/ \E i \in DOMAIN inv : FindBidConfirmed(i)
    \/ ChainAward
    \/ SeekerTick

SpecSeekerDeep == InitSeeker /\ [][NextSeekerDeep]_vars

\* the event loop runs the continuation of `await go(...)` once go() has
\* settled or its timer has fired
SpecSeekerLive == SpecSeeker /\ WF_vars(LoopResume \/ LoopTimeout)

----------------------------------------------------------------------------
(* src/src/oev-bot.ts: runBot, the entry of src/src/index.ts.  One loop
   awaits every call in turn; a rejection outside its try block rejects
   runBot, and index.ts answers with process.exit(1). *)

MaxBotTicks == 2

logChunkBlocks == 10000
BotClockSteps == {OEV_BID_VALIDITY - minBidTimeToLiveSeconds, OEV_BID_VALIDITY}

\* what a crashed earlier run of the agent left on the auction house
InitialChainLogs ==
    LET placed(id) == PlacedBidLog(id, BID_CONDITION.GTE, 2, OEV_BID_VALIDITY, 0)
    IN  {<<>>,
         <<placed(1)>>,
         <<placed(1), AwardedBidLog(1, 2, 0)>>,
         <<placed(1), placed(2)>>}

MaxAddresses == 3
MaxBatches == 2
Addresses == 1..MaxAddresses

\* lodash uniq: the first occurrence of every element, in order
RECURSIVE uniq(_)
uniq(list) ==
    IF list = <<>> THEN <<>>
    ELSE LET front == uniq(SubSeq(list, 1, Len(list) - 1))
             last == list[Len(list)]
         IN  IF \E k \in 1..Len(front) : front[k] = last THEN front
             ELSE Append(front, last)

\* Array.prototype.concat returns a new array and leaves its receiver alone
concat(array, items) == array \o items

\* the for loop of getAccountsToWatch from batch k on: the statement
\* `accountsToWatch.concat(accountsToWatchBatch);` drops what concat returns
RECURSIVE AccountsToWatchLoop(_, _, _)
AccountsToWatchLoop(batches, k, accountsToWatch) ==
    IF k > Len(batches) THEN accountsToWatch
    ELSE LET dropped == concat(accountsToWatch, batches[k])
         IN  AccountsToWatchLoop(batches, k + 1, accountsToWatch)

\* getAccountsToWatch; batches[k] is what checkHealthOfAccounts returned for
\* the k-th chunk of the borrowers found in the logs
getAccountsToWatch(batches) == AccountsToWatchLoop(batches, 1, <<>>)

\* what checkHealthOfAccounts can return for the chunks
SelectedBatches ==
    UNION {[1..n -> {<<>>} \cup {<<a>> : a \in Addresses}] : n \in 0..MaxBatches}

\* uniq([...targetChainData.borrowers, ...borrowers])
MergeBorrowersReplaced(old, new) == uniq(new)
MergeBorrowers(old, new) == uniq(old \o new)

Min(a, b) == IF a < b THEN a ELSE b

\* the while loop of getOevNetworkLogs: the logs of the blocks it asks for
RECURSIVE FetchChunks(_, _, _)
FetchChunks(logs, startBlock, endBlock) ==
    IF startBlock < endBlock
    THEN SubSeq(logs, startBlock, Min(startBlock + logChunkBlocks, endBlock))
            \o FetchChunks(logs, startBlock + logChunkBlocks, endBlock)
    ELSE <<>>

getOevNetworkLogs(logs, startBlock, endBlock) ==
    IF startBlock > endBlock THEN <<>> ELSE FetchChunks(logs, startBlock, endBlock)

\* getInitialOevNetworkLogs on a chain shorter than one chunk whose first
\* block is older than 25 hours: one pass of its loop, from block 0 on
getInitialOevNetworkLogs(logs) ==
    [logs |-> SubSeq(logs, 1, Len(logs)), lastFetchedBlock |-> Len(logs)]

\* awardDetails.timestamp of an AwardedBid log is the time of the award
pruneLogs(logs, now) ==
    LET oldestLogEntryTimestamp == now - 25 * 60 * 60
        old == {n \in DOMAIN logs :
                    /\ logs[n].eventName = "AwardedBid"
                    /\ logs[n].at < oldestLogEntryTimestamp}
    IN  IF old = {} THEN logs
        ELSE SubSeq(logs, CHOOSE n \in old : \A m \in old : n <= m, Len(logs))

ExpediteTx(id) == Tx("expediteBidExpirationMaximally", id, 0, 0)

\* the bids expediteActiveBids walks through, in the order of the Map
ActiveBidIds(logs, now) ==
    LET bids == buildOevNetworkState(logs, now)
        RECURSIVE Ids(_)
        Ids(k) == IF k > Len(bids) THEN <<>>
                  ELSE IF bids[k].status = "active"
                       THEN <<bids[k].bidId>> \o Ids(k + 1)
                       ELSE Ids(k + 1)
    IN  Ids(1)

\* the auction house accepts expediteBidExpirationMaximally for an open bid
\* whose expiration it shortens
CanExpedite(id) ==
    /\ id \in PlacedIds(chainLogs) \ AwardedIds(chainLogs)
    /\ clock + minBidTimeToLiveSeconds < ChainExpiration(chainLogs, id)

RECURSIVE ExpeditedLogs(_, _)
ExpeditedLogs(ids, k) ==
    IF k = 0 THEN <<>>
    ELSE Append(ExpeditedLogs(ids, k - 1),
                ExpeditedBidExpirationLog(ids[k], clock + minBidTimeToLiveSeconds, clock))

Exit == [loop EXCEPT !.pc = "exited"]

\* storage.oevNetworkData.logs is empty: getInitialOevNetworkLogs
BotInitialFetch ==
    /\ loop.pc = "start"
    /\ \/ /\ loop' = Exit
          /\ UNCHANGED <<oevLogs, lastFetchedBlock>>
       \/ LET fetched == getInitialOevNetworkLogs(chainLogs)
          IN  /\ oevLogs' = fetched.logs
              /\ lastFetchedBlock' = fetched.lastFetchedBlock
              /\ loop' = [loop EXCEPT !.pc = "fetch", !.initial = Len(fetched.logs),
                                      !.fetchedAt = clock]
    /\ UNCHANGED <<auxVars, timeVars, currentlyActiveBid, inv, chainBids, awarded, txs,
                   chainLogs, lastBlock>>

\* the top of the while loop: getBlockNumber, getOevNetworkLogs, pruneLogs
BotFetchLogs ==
    /\ loop.pc = "fetch"
    /\ \/ /\ loop' = Exit
          /\ UNCHANGED <<oevLogs, lastFetchedBlock>>
       \/ LET startBlock == lastFetchedBlock + 1
              endBlock == Len(chainLogs)
              logs == getOevNetworkLogs(chainLogs, startBlock, endBlock)
          IN  /\ lastFetchedBlock' = endBlock
              /\ oevLogs' = IF Len(logs) > 0 THEN pruneLogs(oevLogs \o logs, clock)
                                             ELSE oevLogs \o logs
              /\ loop' = [loop EXCEPT !.pc = "expedite"]
    /\ UNCHANGED <<auxVars, timeVars, currentlyActiveBid, inv, chainBids, awarded, txs,
                   chainLogs, lastBlock>>

\* if (storage.currentlyActiveBid && lastBlock === targetChainDataInitialBlock)
\* await expediteActiveBids(): k of the active bids are expedited before a
\* transaction is refused or an RPC call fails
BotExpedite ==
    /\ loop.pc = "expedite"
    /\ IF currentlyActiveBid # Null /\ lastBlock = targetChainDataInitialBlock
       THEN IF ReplayThrows(oevLogs)
            THEN /\ loop' = Exit
                 /\ UNCHANGED <<txs, chainLogs>>
            ELSE LET ids == ActiveBidIds(oevLogs, clock)
                 IN  \E k \in 0..Len(ids) :
                        /\ \A j \in 1..k : CanExpedite(ids[j])
                        /\ txs' = txs \cup {ExpediteTx(ids[j]) : j \in 1..k}
                        /\ chainLogs' = chainLogs \o ExpeditedLogs(ids, k)
                        /\ loop' = IF k = Len(ids) THEN [loop EXCEPT !.pc = "accounts"]
                                                    ELSE Exit
       ELSE /\ loop' = [loop EXCEPT !.pc = "accounts"]
            /\ UNCHANGED <<txs, chainLogs>>
    /\ UNCHANGED <<auxVars, timeVars, oevLogs, currentlyActiveBid, inv, chainBids, awarded,
                   lastFetchedBlock, lastBlock>>

\* getAccountsToWatch(targetChainData.lastBlock): lastBlock becomes the head
\* of the target chain
BotAccounts ==
    /\ loop.pc = "accounts"
    /\ \/ /\ loop' = Exit
          /\ UNCHANGED <<lastBlock, borrowers>>
       \/ /\ \E endBlockNumber \in {targetChainDataInitialBlock,
                                    targetChainDataInitialBlock + 1} :
                /\ endBlockNumber >= lastBlock
                /\ lastBlock' = endBlockNumber
          /\ \E batches \in SelectedBatches :
                borrowers' = MergeBorrowers(borrowers, getAccountsToWatch(batches))
          /\ loop' = [loop EXCEPT !.pc = "run"]
    /\ UNCHANGED <<fetcher, input, output, timeVars, oevLogs, currentlyActiveBid, inv, chainBids, awarded, txs,
                   chainLogs, lastFetchedBlock>>

\* the try block up to its await
BotRun ==
    /\ loop.pc = "run"
    /\ Len(inv) < MaxInvocations
    /\ IF currentlyActiveBid # Null THEN AttemptLiquidationStart
                                    ELSE FindOevLiquidationStart
    /\ loop' = [loop EXCEPT !.pc = "awaiting", !.cur = Len(inv) + 1]
    /\ UNCHANGED <<auxVars, timeVars, oevLogs, chainBids, awarded, txs, botVars>>

\* findOevLiquidation of oev-bot.ts: one of its calls rejects, or the store's
\* borrowers give it no account with shortfall
BotFindScan(i) ==
    /\ inv[i].kind = "find" /\ inv[i].pc = "scanning"
    /\ \/ inv' = [inv EXCEPT ![i].pc = "threw"]
       \/ /\ Len(borrowers) = 0
          /\ inv' = [inv EXCEPT ![i].pc = "noShortfall"]
    /\ UNCHANGED <<auxVars, timeVars, oevLogs, currentlyActiveBid, loop, chainBids, awarded, txs,
                   botVars>>

\* the invocation returned or its error was caught; sleep(sleepTime)
BotResume ==
    /\ loop.pc = "awaiting"
    /\ inv[loop.cur].pc \in Final
    /\ loop' = [loop EXCEPT !.pc = "fetch", !.cur = 0]
    /\ UNCHANGED <<auxVars, timeVars, oevLogs, currentlyActiveBid, inv, chainBids, awarded, txs,
                   botVars>>

\* the auctioneer awards an open bid with a value that satisfies its condition
BotChainAward ==
    /\ Len(chainLogs) < MaxLogs
    /\ \E id \in PlacedIds(chainLogs) \ AwardedIds(chainLogs), v \in AwardValues :
          /\ clock <= ChainExpiration(chainLogs, id)
          /\ Satisfies(PlacedLogOf(chainLogs, id).conditionType,
                       PlacedLogOf(chainLogs, id).conditionValue, v)
          /\ chainLogs' = Append(chainLogs, AwardedBidLog(id, v, clock))
          /\ awarded' = awarded \cup {id}
    /\ UNCHANGED <<auxVars, timeVars, oevLogs, currentlyActiveBid, loop, inv, chainBids, txs,
                   lastFetchedBlock, lastBlock>>

BotTick ==
    /\ ticks < MaxBotTicks
    /\ \E d \in BotClockSteps : clock' = clock + d
    /\ ticks' = ticks + 1
    /\ UNCHANGED <<auxVars, oevLogs, seekerVars, botVars>>

InitBot ==
    /\ clock = 0
    /\ ticks = 0
    /\ oevLogs = <<>>
    /\ currentlyActiveBid = Null
    /\ loop = [pc |-> "start", cur |-> 0, initial |-> 0, fetchedAt |-> 0]
    /\ inv = <<>>
    /\ chainBids = <<>>
    /\ chainLogs \in InitialChainLogs
    /\ awarded = AwardedIds(chainLogs)
    /\ txs = {}
    /\ lastFetchedBlock = 0
    /\ lastBlock = targetChainDataInitialBlock
    /\ borrowers = <<>>
    /\ fetcher = [pc |-> "off", snapshot |-> <<>>, updates |-> 0]
    /\ input = Null
    /\ output = Null

NextBot ==
    \/ BotInitialFetch
    \/ BotFetchLogs
    \/ BotExpedite
    \/ BotAccounts
    \/ BotRun
    \/ \E i \in DOMAIN inv : BotFindScan(i)
    \/ BotResume
    \/ BotChainAward
    \/ BotTick

SpecBot == InitBot /\ [][NextBot]_vars

----------------------------------------------------------------------------
(* The watched accounts: runAccountFetcherLoop of src/src/oev-seeker.ts after
   initializeTargetChainData filled the store, and the watch-list step of
   runBot on the store of src/src/oev-bot.ts. *)

MaxFetches == 2

\* getAccountsFromFile: what persistAccountsToWatch, or an operator, wrote
AccountsFromFile == UNION {[1..n -> Addresses] : n \in 0..MaxAccounts}

\* the head of the target chain when getBorrowersFromLogs asks for it
EndBlockNumbers == {targetChainDataInitialBlock + k : k \in 0..MaxFetches}

\* `const { targetChainData } = getStorage()` and the call of
\* getAccountsToWatch(targetChainData.lastBlock), up to its await
FetcherFetch ==
    /\ fetcher.pc = "sleeping"
    /\ fetcher.updates < MaxFetches
    /\ fetcher' = [fetcher EXCEPT !.pc = "fetching", !.snapshot = borrowers]
    /\ UNCHANGED <<timeVars, oevLogs, seekerVars, botVars, borrowers, input, output>>

\* getAccountsToWatch resolved: updateStorage, then sleep(frequencyMs)
FetcherUpdate ==
    /\ fetcher.pc = "fetching"
    /\ \E batches \in SelectedBatches, endBlockNumber \in EndBlockNumbers :
          /\ endBlockNumber >= lastBlock
          /\ borrowers' = MergeBorrowers(fetcher.snapshot, getAccountsToWatch(batches))
          /\ lastBlock' = endBlockNumber
    /\ fetcher' = [fetcher EXCEPT !.pc = "sleeping", !.updates = @ + 1]
    /\ UNCHANGED <<timeVars, oevLogs, seekerVars, chainLogs, lastFetchedBlock, input, output>>

\* getAccountsToWatch rejected: no try, no go() around it, the loop is over
FetcherRejected ==
    /\ fetcher.pc = "fetching"
    /\ fetcher' = [fetcher EXCEPT !.pc = "rejected"]
    /\ UNCHANGED <<timeVars, oevLogs, seekerVars, botVars, borrowers, input, output>>

\* lines 123-128 of runBot: no await between the read and the write but the
\* one of getAccountsToWatch, and no other loop in that process
BotWatchList ==
    /\ fetcher.pc = "runBot"
    /\ fetcher.updates < MaxFetches
    /\ \E batches \in SelectedBatches, endBlockNumber \in EndBlockNumbers :
          /\ endBlockNumber >= lastBlock
          /\ borrowers' = MergeBorrowers(borrowers, getAccountsToWatch(batches))
          /\ lastBlock' = endBlockNumber
    /\ fetcher' = [fetcher EXCEPT !.updates = @ + 1]
    /\ UNCHANGED <<timeVars, oevLogs, seekerVars, chainLogs, lastFetchedBlock, input, output>>

\* time passing in sleep(frequencyMs) and in the awaits, while
\* persistAccountsToWatchLoop and runAttemptLiquidationLoop read the store's
\* borrowers; neither writes them
WatchTick ==
    /\ ticks < MaxSeekerTicks
    /\ clock' = clock + totalTimeoutSeconds
    /\ ticks' = ticks + 1
    /\ UNCHANGED <<oevLogs, seekerVars, botVars, auxVars>>

\* the seeker with the accounts of its file, or the bot with its empty store
InitWatch ==
    /\ clock = 0
    /\ ticks = 0
    /\ oevLogs = <<>>
    /\ currentlyActiveBid = Null
    /\ loop = [pc |-> "idle", cur |-> 0, start |-> 0]
    /\ inv = <<>>
    /\ chainBids = <<>>
    /\ awarded = {}
    /\ txs = {}
    /\ chainLogs = <<>>
    /\ lastFetchedBlock = 0
    /\ lastBlock = targetChainDataInitialBlock
    /\ input = Null
    /\ output = Null
    /\ \/ /\ borrowers \in AccountsFromFile
          /\ fetcher = [pc |-> "sleeping", snapshot |-> <<>>, updates |-> 0]
       \/ /\ borrowers = <<>>
          /\ fetcher = [pc |-> "runBot", snapshot |-> <<>>, updates |-> 0]

NextWatch ==
    \/ FetcherFetch
    \/ FetcherUpdate
    \/ FetcherRejected
    \/ BotWatchList
    \/ WatchTick

SpecWatch == InitWatch /\ [][NextWatch]_vars

----------------------------------------------------------------------------
(* The pure functions of src/src/interfaces.ts, src/src/commons.ts and of
   findOevLiquidation: `input` holds the arguments of a call, `output` what
   it returned. *)

WordBits == 5       \* bits of an ABI word and of uint256 (256 in the code)
Int224Bits == 4     \* bits of int224 (224 in the code)

RECURSIVE Pow(_, _)
Pow(base, n) == IF n = 0 THEN 1 ELSE base * Pow(base, n - 1)

\* a hex string is the bytes it spells and the case of its letters a-f; the
\* values are those with a letter among their digits
AddressSpellings == {"checksum", "lower", "upper"}
HexSpellings == {"lower", "upper"}
HexString(value, spelling) == [value |-> value, spelling |-> spelling]

\* ethers getAddress: the EIP-55 spelling of an address in any valid spelling
getAddress(address) == HexString(address.value, "checksum")
\* ethers hexlify: lower-case digits
hexlify(bytes) == HexString(bytes, "lower")

\* two's complement, as NumberCoder writes and reads a signed integer
toTwos(value, width) == IF value < 0 THEN value + Pow(2, width) ELSE value
fromTwosUnsigned(value, width) == value
fromTwos(value, width) ==
    IF value >= Pow(2, width - 1) THEN value - Pow(2, width) ELSE value
mask(value, bits) == value % Pow(2, bits)

\* the tuples AbiCoder encodes without throwing
BidDetailsTuples ==
    [oevProxyAddress : {HexString(1, f) : f \in AddressSpellings},
     conditionType : {BID_CONDITION.LTE, BID_CONDITION.GTE, Pow(2, WordBits) - 1},
     conditionValue : -Pow(2, Int224Bits - 1) .. Pow(2, Int224Bits - 1) - 1,
     updateSenderAddress : {HexString(a, f) : a \in {1, 2}, f \in AddressSpellings},
     nonce : {HexString(1, f) : f \in HexSpellings}]

\* AbiCoder.defaultAbiCoder().encode(['address', 'uint256', 'int224',
\* 'address', 'bytes32'], [...]): five words
encodeBidDetails(bidDetails) ==
    <<getAddress(bidDetails.oevProxyAddress).value,
      bidDetails.conditionType,
      toTwos(bidDetails.conditionValue, WordBits),
      getAddress(bidDetails.updateSenderAddress).value,
      bidDetails.nonce.value>>

\* AbiCoder.defaultAbiCoder().decode of the same five types
decodeBidDetails(encodedBidDetails) ==
    [oevProxyAddress |-> getAddress(HexString(encodedBidDetails[1], "lower")),
     conditionType |-> encodedBidDetails[2],
     conditionValue |-> fromTwos(mask(encodedBidDetails[3], Int224Bits), Int224Bits),
     updateSenderAddress |-> getAddress(HexString(encodedBidDetails[4], "lower")),
     nonce |-> hexlify(encodedBidDetails[5])]

Call(fn, args) == [fn |-> fn, args |-> args]

\* decodeBidDetails(encodeBidDetails(x))
CallDecodeEncode ==
    /\ input = Null
    /\ \E x \in BidDetailsTuples :
          /\ input' = {Call("decodeBidDetails(encodeBidDetails)", x)}
          /\ output' = {decodeBidDetails(encodeBidDetails(x))}
    /\ UNCHANGED <<timeVars, oevLogs, seekerVars, botVars, borrowers, fetcher>>

MaxWatched == 3

\* getAccountLiquidity under the transmuted price: liquidity[2], the shortfall
Shortfalls == {0, 1, 50, 100}

\* accounts: {liquidity, borrower: borrowers[index]} in the order of the
\* store's borrowers
WatchLists ==
    UNION {{[k \in 1..n |-> [borrower |-> k, shortfall |-> f[k]]] :
                f \in [1..n -> Shortfalls]} : n \in 0..MaxWatched}

\* .filter(({ liquidity }) => liquidity[2] > 0)
HasShortfallOrNone(account) == account.shortfall >= 0
HasShortfall(account) == account.shortfall > 0

\* (a, b) => (a.liquidity[2] > b.liquidity[2] ? -1 : 1)
compareShortfallFlipped(a, b) == IF a.shortfall < b.shortfall THEN -1 ELSE 1
compareShortfall(a, b) == IF a.shortfall > b.shortfall THEN -1 ELSE 1

Orders(n) ==
    {f \in [1..n -> 1..n] : \A j, k \in 1..n : f[j] = f[k] => j = k}

\* Array.prototype.sort with this comparefn: the comparefn never answers 0,
\* so the order of accounts with equal shortfall is the engine's; every order
\* in which comparefn says of each element that it comes after those in
\* front of it is an outcome
sort(list) ==
    {r \in {[k \in 1..Len(list) |-> list[f[k]]] : f \in Orders(Len(list))} :
        \A j, k \in 1..Len(r) : j < k => compareShortfall(r[k], r[j]) > 0}

\* accountsWithShortfall, the order in which the for loop takes the accounts
accountsWithShortfall(accounts) == sort(SelectSeq(accounts, HasShortfall))

CallAccountsWithShortfall ==
    /\ input = Null
    /\ \E accounts \in WatchLists :
          /\ input' = {Call("accountsWithShortfall", accounts)}
          /\ \E sorted \in accountsWithShortfall(accounts) : output' = {sorted}
    /\ UNCHANGED <<timeVars, oevLogs, seekerVars, botVars, borrowers, fetcher>>

MaxAmount == 3

\* the for loop of min from index i on (indexes from 1 here)
RECURSIVE MinLoopFlipped(_, _, _)
MinLoopFlipped(args, i, mn) ==
    IF i > Len(args) THEN mn
    ELSE MinLoopFlipped(args, i + 1, IF args[i] > mn THEN args[i] ELSE mn)

RECURSIVE MinLoop(_, _, _)
MinLoop(args, i, mn) ==
    IF i > Len(args) THEN mn
    ELSE MinLoop(args, i + 1, IF args[i] < mn THEN args[i] ELSE mn)

\* min(...args) of commons.ts, for args.length > 0
min(args) == MinLoop(args, 2, args[1])

\* maxBorrowRepay of findOevLiquidation: the close-factor share of the ETH
\* borrow, the balance of the liquidator contract, 95% of the largest
\* collateral
maxBorrowRepay(closeFactorShare, orbitEtherLiquidatorBalance, bufferedCollateral) ==
    min(<<closeFactorShare, orbitEtherLiquidatorBalance, bufferedCollateral>>)

\* the fourth argument of the simulated liquidate call, kept in
\* bestLiquidation.maxBorrowRepay for the real one
CallMaxBorrowRepay ==
    /\ input = Null
    /\ \E a \in 0..MaxAmount, b \in 0..MaxAmount, c \in 0..MaxAmount :
          /\ input' = {Call("maxBorrowRepay", <<a, b, c>>)}
          /\ output' = {maxBorrowRepay(a, b, c)}
    /\ UNCHANGED <<timeVars, oevLogs, seekerVars, botVars, borrowers, fetcher>>

\* a bigint here is the sequence of its base-100 digits, lowest first, so
\* that the quotients by 10 ** 10 and by 100n are exact whatever its size
RECURSIVE BigInt(_)
BigInt(n) == IF n = 0 THEN <<>> ELSE <<n % 100>> \o BigInt(n \div 100)

RECURSIVE Number(_)
Number(big) == IF big = <<>> THEN 0 ELSE big[1] + 100 * Number(Tail(big))

\* value * big for a value below 10 ** 6
RECURSIVE BigTimes(_, _, _)
BigTimes(value, big, carry) ==
    IF big = <<>> THEN BigInt(carry)
    ELSE <<(value * big[1] + carry) % 100>>
            \o BigTimes(value, Tail(big), (value * big[1] + carry) \div 100)

\* big / 100n ** k: bigint division rounds toward zero
BigOverPow100(big, k) == IF Len(big) <= k THEN <<>> ELSE SubSeq(big, k + 1, Len(big))

\* a percent literal: units / 10 ** decimals
Percent(units, decimals) == [units |-> units, decimals |-> decimals]

\* Math.trunc(percent * onePercent) with onePercent = 10 ** 10: the product
\* of two IEEE-754 doubles, rounded to the nearest double, then cut to an
\* integer.  For 0.41, 0.57 and 1.13 the rounded product lies below the
\* integer the decimals stand for.
TruncatedProduct ==
    (Percent(1002, 1) :> <<0, 0, 0, 0, 20, 0, 1>> @@      \* 100.2 -> 1002000000000
     Percent(95, 0)   :> <<0, 0, 0, 0, 0, 95>> @@         \*  95   ->  950000000000
     Percent(20, 0)   :> <<0, 0, 0, 0, 0, 20>> @@         \*  20   ->  200000000000
     Percent(3, 0)    :> <<0, 0, 0, 0, 0, 3>> @@          \*   3   ->   30000000000
     Percent(29, 2)   :> <<0, 0, 0, 0, 29>> @@            \* 0.29  ->    2900000000
     Percent(41, 2)   :> <<99, 99, 99, 99, 40>> @@        \* 0.41  ->    4099999999
     Percent(57, 2)   :> <<99, 99, 99, 99, 56>> @@        \* 0.57  ->    5699999999
     Percent(113, 2)  :> <<99, 99, 99, 99, 12, 1>>)       \* 1.13  ->   11299999999

Percents == DOMAIN TruncatedProduct
PercentageValues == {0, 1, 100, 1995, 10000}

\* (value * BigInt(Math.trunc(percent * onePercent))) / BigInt(onePercent) / 100n
getPercentageValue(value, percent) ==
    Number(BigOverPow100(BigOverPow100(BigTimes(value, TruncatedProduct[percent], 0), 5), 1))

CallGetPercentageValue ==
    /\ input = Null
    /\ \E value \in PercentageValues, percent \in Percents :
          /\ input' = {Call("getPercentageValue", <<value, percent>>)}
          /\ output' = {getPercentageValue(value, percent)}
    /\ UNCHANGED <<timeVars, oevLogs, seekerVars, botVars, borrowers, fetcher>>

\* amounts of accounts-to-watch.ts are in units of 0.005 ether
MIN_ETH_BORROW == 2
SAFE_COLLATERAL_BUFFER_PERCENT == Percent(3, 0)
\* priceOracle.getUnderlyingPrice over 10n ** 18n
EthUsdPrice == 100
chunkSize == 2      \* 500 in the code

\* what getAccountDetails and getAccountLiquidity return for a borrower
AccountStates ==
    [ethBorrowBalance : {0, MIN_ETH_BORROW - 1, MIN_ETH_BORROW},
     excessLiquidity : {getPercentageValue(MIN_ETH_BORROW * EthUsdPrice,
                                           SAFE_COLLATERAL_BUFFER_PERCENT) + d : d \in {0, 1}},
     shortfall : {0, 1}]

\* the borrowers found in the logs, with their state on the chain
BorrowersFromLogs(n) ==
    {[k \in 1..n |-> [borrower |-> k, state |-> f[k]]] : f \in [1..n -> AccountStates]}

\* the tests of checkHealthOfAccounts in front of accountsToWatch.push
WorthWatching(state) ==
    /\ state.ethBorrowBalance # 0
    /\ ~(state.ethBorrowBalance < MIN_ETH_BORROW)
    /\ ~(/\ state.shortfall = 0
          /\ state.excessLiquidity >
                getPercentageValue(state.ethBorrowBalance * EthUsdPrice,
                                   SAFE_COLLATERAL_BUFFER_PERCENT))

checkHealthOfAccounts(accounts) ==
    LET watched == SelectSeq(accounts, LAMBDA account : WorthWatching(account.state))
    IN  [k \in 1..Len(watched) |-> watched[k].borrower]

\* lodash chunk
RECURSIVE chunk(_, _)
chunk(list, size) ==
    IF Len(list) <= size THEN (IF list = <<>> THEN <<>> ELSE <<list>>)
    ELSE <<SubSeq(list, 1, size)>> \o chunk(SubSeq(list, size + 1, Len(list)), size)

\* getAccountsToWatch over the borrowers of getBorrowersFromLogs
CallGetAccountsToWatch ==
    /\ input = Null
    /\ \E n \in 0..MaxWatched : \E found \in BorrowersFromLogs(n) :
          LET batches == chunk(found, chunkSize)
          IN  /\ input' = {Call("getAccountsToWatch", found)}
              /\ output' = {getAccountsToWatch(
                               [k \in 1..Len(batches) |-> checkHealthOfAccounts(batches[k])])}
    /\ UNCHANGED <<timeVars, oevLogs, seekerVars, botVars, borrowers, fetcher>>

\* accountsWithShortfall in sorted order, each with what its simulations
\* return.  getAccountDetails lists the account's assets: oEtherV2 is among
\* them (hasEthBorrow) with a borrow balance that may be 0n, or it is not
SimulatedOutcomes ==
    [hasEthBorrow : {TRUE}, ethBorrowBalance : {1}, liquidate : {"ok"},
     profitEth : {1, 2}, profitUsd : ProfitsUsd]
    \cup [hasEthBorrow : {TRUE}, ethBorrowBalance : {0}, liquidate : {"ok"},
          profitEth : {1}, profitUsd : {MIN_LIQUIDATION_PROFIT_USD + 1}]
    \cup [hasEthBorrow : {TRUE}, ethBorrowBalance : {0, 1}, liquidate : {"revert"},
          profitEth : {0}, profitUsd : {0}]
    \cup [hasEthBorrow : {FALSE}, ethBorrowBalance : {0}, liquidate : {"ok"},
          profitEth : {0}, profitUsd : {0}]

\* the lists of n accounts
Candidates(n) ==
    {[k \in 1..n |-> [borrower |-> k] @@ f[k]] : f \in [1..n -> SimulatedOutcomes]}

\* the for loop of findOevLiquidation of oev-bot.ts from account k on: no
\* go() around the simulation, the best is the greatest profitUsd
RECURSIVE BotScanAccounts(_, _, _)
BotScanAccounts(accounts, k, best) ==
    IF k > Len(accounts) THEN [pc |-> IF best = {} THEN "noOpportunity" ELSE "placing",
                               best |-> best]
    ELSE LET a == accounts[k]
         IN  IF ~a.hasEthBorrow THEN BotScanAccounts(accounts, k + 1, best)
             ELSE IF a.liquidate = "revert" THEN [pc |-> "threw", best |-> {}]
             ELSE IF ProfitTooLow(a.profitUsd) THEN BotScanAccounts(accounts, k + 1, best)
             ELSE IF best = {} \/ a.profitUsd > TheBid(best).profitUsd
                  THEN BotScanAccounts(accounts, k + 1, {a})
                  ELSE BotScanAccounts(accounts, k + 1, best)

\* the scan of findOevLiquidation of oev-seeker.ts; the bid is placed for
\* `best` when pc is "placing"
CallFindScan ==
    /\ input = Null
    /\ \E n \in 0..MaxWatched : \E accounts \in Candidates(n) :
          /\ input' = {Call("findOevLiquidation", accounts)}
          /\ output' = {ScanOutcome(accounts)}
    /\ UNCHANGED <<timeVars, oevLogs, seekerVars, botVars, borrowers, fetcher>>

\* the scan of findOevLiquidation of oev-bot.ts
CallBotFindScan ==
    /\ input = Null
    /\ \E n \in 0..MaxWatched : \E accounts \in Candidates(n) :
          /\ input' = {Call("findOevLiquidation (oev-bot.ts)", accounts)}
          /\ output' = {IF accounts = <<>> THEN [pc |-> "noShortfall", best |-> {}]
                                           ELSE BotScanAccounts(accounts, 1, {})}
    /\ UNCHANGED <<timeVars, oevLogs, seekerVars, botVars, borrowers, fetcher>>

\* left ?? right: the right operand only when the left one is null or
\* undefined
NullishCoalescing(left, right) == IF left # Null THEN left ELSE right

\* parseEther('0.0000000000001'), in wei
parseEtherBidAmount == 100000

\* the bid amount of findOevLiquidation in oev-bot.ts; profitInEth is
\* (bestLiquidation.profitUsd * 10n ** 18n) / transmutationValue
botBidAmount(profitInEth, percent) ==
    NullishCoalescing({parseEtherBidAmount}, {getPercentageValue(profitInEth, percent)})

\* two scans of oev-bot.ts that reach the bid placement with the profits of
\* their best liquidations; SIMULATION_PERCENTAGE is one value of ./constants
CallBotBidAmount ==
    /\ input = Null
    /\ \E first \in PercentageValues, second \in PercentageValues, percent \in Percents :
          /\ input' = {Call("bidAmount (oev-bot.ts)", <<first, second, percent>>)}
          /\ output' = {<<botBidAmount(first, percent), botBidAmount(second, percent)>>}
    /\ UNCHANGED <<timeVars, oevLogs, seekerVars, botVars, borrowers, fetcher>>

\* keccak256 and solidityPacked: no two inputs of the model share a digest
keccak256(bytes) == <<"keccak256", bytes>>
deriveBidId(bidderAddress, bidTopic, encodedBidDetails) ==
    keccak256(<<bidderAddress, bidTopic, keccak256(encodedBidDetails)>>)

\* priceOracle.getUnderlyingPrice(oEtherV2) at the start of a scan, within
\* the int224 of the model
MaxPrice == 6
EthUsdPrices == 1..MaxPrice
Nonces == {1, 2}

\* the bidDetails object of findOevLiquidation
bidDetailsLte(transmutationValue, nonce) ==
    [oevProxyAddress |-> HexString(1, "checksum"),
     conditionType |-> BID_CONDITION.LTE,
     conditionValue |-> transmutationValue,
     updateSenderAddress |-> HexString(2, "checksum"),
     nonce |-> nonce]
bidDetailsOf(transmutationValue, nonce) ==
    [oevProxyAddress |-> HexString(1, "checksum"),
     conditionType |-> BID_CONDITION.GTE,
     conditionValue |-> transmutationValue,
     updateSenderAddress |-> HexString(2, "checksum"),
     nonce |-> nonce]

\* one scan of oev-seeker.ts that finds a best liquidation and places its
\* bid: the value it simulates with, the transaction it sends and the bid it
\* stores
placeBid(currentEthUsdPrice, randomBytes, bestLiquidation) ==
    LET transmutationValue == getPercentageValue(currentEthUsdPrice, Percent(1002, 1))
        bidAmount == getPercentageValue(bestLiquidation.profitEth, Percent(20, 0))
        bidDetails == bidDetailsOf(transmutationValue, hexlify(randomBytes))
        encodedBidDetails == encodeBidDetails(bidDetails)
        bidId == deriveBidId("wallet", "bidTopic", encodedBidDetails)
    IN  [dapiTransmutationCalls |-> transmutationValue,
         placeBidWithExpiration |->
            [bidTopic |-> "bidTopic", bidAmount |-> bidAmount,
             bidDetails |-> encodedBidDetails],
         currentlyActiveBid |->
            [bidId |-> bidId, bidAmount |-> bidAmount, bidDetails |-> bidDetails,
             liquidationParameters |-> bestLiquidation]]

CallPlaceBid ==
    /\ input = Null
    /\ \E price \in EthUsdPrices, randomBytes \in Nonces,
          best \in {c \in SimulatedOutcomes : c.hasEthBorrow /\ c.liquidate = "ok"
                                              /\ ~ProfitTooLow(c.profitUsd)} :
          /\ input' = {Call("placeBid", <<price, randomBytes, best>>)}
          /\ output' = {placeBid(price, randomBytes, best)}
    /\ UNCHANGED <<timeVars, oevLogs, seekerVars, botVars, borrowers, fetcher>>

\* Date.now() / 1000 at a call of pruneLogs, and the award times of the cache
PruneNow == 25 * 60 * 60 + 60
CachedLogs ==
    {PlacedBidLog(1, BID_CONDITION.GTE, 2, OEV_BID_VALIDITY, 0),
     AwardedBidLog(1, 2, 0),
     AwardedBidLog(1, 2, PruneNow - 60)}
LogCaches == UNION {[1..n -> CachedLogs] : n \in 0..MaxLogs}

\* storage.oevNetworkData.logs = pruneLogs(storage.oevNetworkData.logs)
CallPruneLogs ==
    /\ input = Null
    /\ \E logs \in LogCaches :
          /\ input' = {Call("pruneLogs", logs)}
          /\ output' = {pruneLogs(logs, PruneNow)}
    /\ UNCHANGED <<timeVars, oevLogs, seekerVars, botVars, borrowers, fetcher>>

\* how an expedite transaction ends: mined, or rejected at sending or waiting
TxOutcomes == {"mined", "rejected"}

\* await go(fn): a rejection of fn becomes a result with success false
awaitBare(outcome) == [success |-> outcome = "mined", threw |-> outcome = "rejected"]
awaitGo(outcome) == [success |-> outcome = "mined", threw |-> FALSE]

\* the for loop of expediteActiveBids in oev-seeker.ts over activeBids from
\* the k-th on: the bids an expedite transaction was attempted for, and
\* whether an exception left the function
RECURSIVE ExpediteLoop(_, _, _)
ExpediteLoop(activeBids, k, outcomes) ==
    IF k > Len(activeBids) THEN [attempts |-> <<>>, threw |-> FALSE]
    ELSE LET goExpedite == awaitGo(outcomes[activeBids[k]])
             rest == ExpediteLoop(activeBids, k + 1, outcomes)
         IN  IF goExpedite.threw THEN [attempts |-> <<activeBids[k]>>, threw |-> TRUE]
             ELSE [rest EXCEPT !.attempts = <<activeBids[k]>> \o @]

seekerExpediteActiveBids(logs, now, outcomes) ==
    ExpediteLoop(ActiveBidIds(logs, now), 1, outcomes)

\* runSeeker after the two initializations: expediteActiveBids, then the
\* three loops
SeekerLoops == {"runAccountFetcherLoop", "runAttemptLiquidationLoop", "persistAccountsToWatchLoop"}
runSeeker(logs, now, outcomes) ==
    LET expedite == seekerExpediteActiveBids(logs, now, outcomes)
    IN  [attempts |-> expedite.attempts,
         started |-> IF expedite.threw THEN {} ELSE SeekerLoops]

CallRunSeeker ==
    /\ input = Null
    /\ \E logs \in InitialChainLogs, outcomes \in [1..MaxBids -> TxOutcomes] :
          /\ input' = {Call("runSeeker", <<logs, outcomes>>)}
          /\ output' = {runSeeker(logs, 0, outcomes)}
    /\ UNCHANGED <<timeVars, oevLogs, seekerVars, botVars, borrowers, fetcher>>

\* Math.min(startBlockNumber + 10_000, endBlockNumber)
actualEndBlockNumberShort(startBlockNumber, endBlockNumber) ==
    Min(startBlockNumber + logChunkBlocks - 2, endBlockNumber)
actualEndBlockNumber(startBlockNumber, endBlockNumber) ==
    Min(startBlockNumber + logChunkBlocks, endBlockNumber)

\* the while loop of attemptLiquidation that looks for the AwardedBid event
\* of the bid; awardBlocks are the blocks that hold one.  queryFilter takes
\* fromBlock and toBlock inclusively
RECURSIVE QueryAward(_, _, _)
QueryAward(startBlockNumber, endBlockNumber, awardBlocks) ==
    IF ~(startBlockNumber < endBlockNumber) THEN [queried |-> <<>>, bidAwardEvent |-> Null]
    ELSE LET toBlock == actualEndBlockNumber(startBlockNumber, endBlockNumber)
             window == [fromBlock |-> startBlockNumber, toBlock |-> toBlock]
             bidAwardEvents == {b \in awardBlocks : startBlockNumber <= b /\ b <= toBlock}
             rest == QueryAward(startBlockNumber + logChunkBlocks, endBlockNumber, awardBlocks)
         IN  IF bidAwardEvents # {}
             THEN [queried |-> <<window>>, bidAwardEvent |-> bidAwardEvents]
             ELSE [rest EXCEPT !.queried = <<window>> \o @]

\* the bid's recorded blockNumber, how far the head is ahead of it, and where
\* in that range the award is
MaxChunks == 2
BlockNumbers == {0, 1}
HeadOffsets ==
    {0, 1} \cup UNION {{n * logChunkBlocks - 1, n * logChunkBlocks, n * logChunkBlocks + 1} :
                        n \in 1..MaxChunks}
AwardBlocks(blockNumber, head) ==
    {Null} \cup {{blockNumber + d} : d \in {o \in HeadOffsets : blockNumber + o <= head}}
                \cup {{head - d} : d \in {o \in {0, 1} : o <= head - blockNumber}}

CallQueryAward ==
    /\ input = Null
    /\ \E blockNumber \in BlockNumbers, offset \in HeadOffsets :
          \E awardBlocks \in AwardBlocks(blockNumber, blockNumber + offset) :
              /\ input' = {Call("queryAward", <<blockNumber, blockNumber + offset, awardBlocks>>)}
              /\ output' = {QueryAward(blockNumber, blockNumber + offset, awardBlocks)}
    /\ UNCHANGED <<timeVars, oevLogs, seekerVars, botVars, borrowers, fetcher>>

\* oevNetworkProvider.getLogs({ fromBlock, toBlock, ... }) on a chain whose
\* matching events lie in eventBlocks, one to a block: the events of the
\* blocks fromBlock..toBlock in the order of the chain, each named by its block
RECURSIVE getLogs(_, _, _)
getLogs(eventBlocks, fromBlock, toBlock) ==
    LET inRange == {b \in eventBlocks : fromBlock <= b /\ b <= toBlock}
    IN  IF inRange = {} THEN <<>>
        ELSE LET first == CHOOSE b \in inRange : \A c \in inRange : b <= c
             IN  <<first>> \o getLogs(eventBlocks, first + 1, toBlock)

\* the while loop of getOevNetworkLogs of oev-bot.ts
RECURSIVE FetchLogChunks(_, _, _)
FetchLogChunks(eventBlocks, startBlock, endBlock) ==
    IF startBlock < endBlock
    THEN getLogs(eventBlocks, startBlock, Min(startBlock + logChunkBlocks, endBlock))
            \o FetchLogChunks(eventBlocks, startBlock + logChunkBlocks, endBlock)
    ELSE <<>>

\* one turn of runBot's loop: what is appended to the cache and the new
\* lastFetchedBlock
fetchOevNetworkLogs(eventBlocks, lastFetched, endBlock) ==
    LET startBlock == lastFetched + 1
    IN  [appended |-> IF startBlock > endBlock THEN <<>>
                      ELSE FetchLogChunks(eventBlocks, startBlock, endBlock),
         lastFetchedBlock |-> endBlock]

\* how far the head is ahead of lastFetchedBlock, and the blocks with events
BlockDistances ==
    {0, 1, 2} \cup UNION {{n * logChunkBlocks, n * logChunkBlocks + 1, n * logChunkBlocks + 2} :
                           n \in 1..MaxChunks}
EventBlockSets(lastFetched, endBlock) ==
    SUBSET ({lastFetched + d : d \in {o \in {1, 2, logChunkBlocks, logChunkBlocks + 1} :
                                         lastFetched + o <= endBlock}} \cup {endBlock})

CallFetchOevNetworkLogs ==
    /\ input = Null
    /\ \E lastFetched \in BlockNumbers, distance \in BlockDistances :
          \E eventBlocks \in EventBlockSets(lastFetched, lastFetched + distance) :
              /\ input' = {Call("fetchOevNetworkLogs",
                                 <<eventBlocks, lastFetched, lastFetched + distance>>)}
              /\ output' = {fetchOevNetworkLogs(eventBlocks, lastFetched,
                                                 lastFetched + distance)}
    /\ UNCHANGED <<timeVars, oevLogs, seekerVars, botVars, borrowers, fetcher>>

\* the auction network: the block at height h was mined blockSeconds * h
\* after the block at height 0, and the head `idle` seconds before now
blockSeconds == 2
BlockTimestamp(height) == blockSeconds * height
HeadHeights == {0, 1} \cup {n * logChunkBlocks : n \in 1..5}
IdleSeconds == {0, 26 * 60 * 60}

\* the while loop of getInitialOevNetworkLogs from one test of its condition
\* on: `passes` windows are fetched before it ends; it does not end when a
\* pass leaves latestBlock and currentTimestamp as they were
RECURSIVE InitialFetchLoop(_, _, _)
InitialFetchLoop(latestBlock, currentTimestamp, oldestAllowedTimestamp) ==
    IF ~(currentTimestamp > oldestAllowedTimestamp) THEN [pc |-> "returned", passes |-> 0]
    ELSE LET fromBlock == IF latestBlock - logChunkBlocks > 0
                          THEN latestBlock - logChunkBlocks ELSE 0
             fromBlockTimestamp == BlockTimestamp(fromBlock)
         IN  IF fromBlock = latestBlock /\ fromBlockTimestamp = currentTimestamp
             THEN [pc |-> "looping", passes |-> 1]
             ELSE LET rest == InitialFetchLoop(fromBlock, fromBlockTimestamp,
                                               oldestAllowedTimestamp)
                  IN  [rest EXCEPT !.passes = @ + 1]

initialOevNetworkLogsLoop(head, now) ==
    InitialFetchLoop(head, now, now - 25 * 60 * 60)

CallGetInitialOevNetworkLogs ==
    /\ input = Null
    /\ \E head \in HeadHeights, idle \in IdleSeconds :
          /\ input' = {Call("getInitialOevNetworkLogs", <<head, idle>>)}
          /\ output' = {initialOevNetworkLogsLoop(head, BlockTimestamp(head) + idle)}
    /\ UNCHANGED <<timeVars, oevLogs, seekerVars, botVars, borrowers, fetcher>>

\* how many blocks the auction network's head moves on during an await
BlockDelays == 0..2

\* const blockNumber = await oevNetworkProvider.getBlockNumber(), awaited
\* before placeBidWithExpiration is submitted
BlockNumberAfterWait(headBeforePlacing, headAfterWait) == headAfterWait
BlockNumberOfBid(headBeforePlacing, headAfterWait) == headBeforePlacing

\* findOevLiquidation from getBlockNumber to the bid it stores, then the
\* start of attemptLiquidation's search.  The transaction is mined in a block
\* after the head that getBlockNumber saw, wait(1) returns once the head has
\* reached that block, the auctioneer awards in that block or a later one
storeActiveBid(head, minedAfter, confirmedAfter, awardedAfter) ==
    LET placedBlock == head + minedAfter
        blockNumber == BlockNumberOfBid(head, placedBlock + confirmedAfter)
    IN  [blockNumber |-> blockNumber,
         placedBlock |-> placedBlock,
         awardBlock |-> placedBlock + awardedAfter,
         startBlockNumber |-> blockNumber]

CallStoreActiveBid ==
    /\ input = Null
    /\ \E head \in BlockNumbers \cup {logChunkBlocks},
          minedAfter \in BlockDelays \ {0},
          confirmedAfter \in BlockDelays, awardedAfter \in BlockDelays :
          /\ input' = {Call("storeActiveBid", <<head, minedAfter, confirmedAfter, awardedAfter>>)}
          /\ output' = {storeActiveBid(head, minedAfter, confirmedAfter, awardedAfter)}
    /\ UNCHANGED <<timeVars, oevLogs, seekerVars, botVars, borrowers, fetcher>>

\* what simulateTransmutationMulticall returns for the two data feed calls
\* followed by the getAccountLiquidity calls of one batch: one returndata for
\* each call, in the order of the calls; `of` names the borrower whose call
\* produced the tuple, 0 for the data feed calls
simulateBatch(batch, shortfallOf) ==
    <<[of |-> 0, shortfall |-> 0], [of |-> 0, shortfall |-> 0]>>
        \o [k \in 1..Len(batch) |-> [of |-> batch[k], shortfall |-> shortfallOf[batch[k]]]]

\* const [_setDapiNameReturndata, _updateBeaconWithSignedDataReturndata,
\*        ...accountLiquidityReturndata] = returndata
accountLiquidityReturndata(returndata) == Tail(Tail(returndata))

\* the for loop over chunk(getAccountLiquidityCalls, 500) from batch k on
RECURSIVE FetchAccountLiquidity(_, _, _)
FetchAccountLiquidity(batches, k, shortfallOf) ==
    IF k > Len(batches) THEN <<>>
    ELSE accountLiquidityReturndata(simulateBatch(batches[k], shortfallOf))
            \o FetchAccountLiquidity(batches, k + 1, shortfallOf)

\* borrower: borrowers[index]!, index counting over all batches
borrowerOfBatchIndex(watched, index) == watched[((index - 1) % chunkSize) + 1]
borrowerOfIndex(watched, index) == watched[index]

\* findOevLiquidation from `const { borrowers } = targetChainData` to
\* `accounts`, while runAccountFetcherLoop adds the borrowers it fetched to the
\* store: updateStorage replaces the store's array, the array this invocation
\* read stays what it was
pairAccounts(watched, fetched, shortfallOf) ==
    LET accountLiquidity ==
            FetchAccountLiquidity(chunk(watched, chunkSize), 1, shortfallOf)
    IN  [accounts |-> [index \in 1..Len(accountLiquidity) |->
                          [liquidity |-> accountLiquidity[index],
                           borrower |-> borrowerOfIndex(watched, index)]],
         storeBorrowers |-> uniq(watched \o fetched)]

\* the store's borrowers: n distinct addresses
BorrowerLists(n) ==
    {list \in [1..n -> Addresses] : \A j, k \in 1..n : list[j] = list[k] => j = k}

CallPairAccounts ==
    /\ input = Null
    /\ \E n \in 0..MaxWatched : \E watched \in BorrowerLists(n) :
          \E fetched \in {<<>>} \cup {<<a>> : a \in 1..(MaxAddresses + 1)},
             shortfallOf \in [Addresses -> {0, 1}] :
              /\ input' = {Call("pairAccounts", <<watched, fetched, shortfallOf>>)}
              /\ output' = {pairAccounts(watched, fetched, shortfallOf)}
    /\ UNCHANGED <<timeVars, oevLogs, seekerVars, botVars, borrowers, fetcher>>

\* the caller is done with the result
Return ==
    /\ input # Null
    /\ input' = Null
    /\ output' = Null
    /\ UNCHANGED <<timeVars, oevLogs, seekerVars, botVars, borrowers, fetcher>>

InitFunctions == InitCommon

NextFunctions ==
    \/ CallDecodeEncode
    \/ CallAccountsWithShortfall
    \/ CallMaxBorrowRepay
    \/ CallGetPercentageValue
    \/ CallGetAccountsToWatch
    \/ CallFindScan
    \/ CallBotFindScan
    \/ CallBotBidAmount
    \/ CallPlaceBid
    \/ CallPruneLogs
    \/ CallRunSeeker
    \/ CallQueryAward
    \/ CallFetchOevNetworkLogs
    \/ CallGetInitialOevNetworkLogs
    \/ CallStoreActiveBid
    \/ CallPairAccounts
    \/ Return

SpecFunctions == InitFunctions /\ [][NextFunctions]_vars

----------------------------------------------------------------------------
(* Claims on buildOevNetworkState, checked under SpecReplay *)

(* C3: when an AwardedBid log with value V is replayed, every other bid that
   is active at that point becomes 'lost' exactly if V satisfies its condition
   (GTE and V >= threshold, or LTE and V <= threshold), and stays 'active'
   otherwise. *)
ConditionSatisfied(bid, v) ==
    Satisfies(bid.log.conditionType, bid.log.conditionValue, v)

C3_LostIffConditionSatisfied ==
    \A n \in DOMAIN oevLogs :
        oevLogs[n].eventName = "AwardedBid" =>
            LET before == Replay(SubSeq(oevLogs, 1, n - 1))
                after == Replay(SubSeq(oevLogs, 1, n))
            IN  \A i \in DOMAIN before :
                    (before[i].status = "active" /\ before[i].bidId # oevLogs[n].bidId) =>
                        after[i].status =
                            IF ConditionSatisfied(before[i], oevLogs[n].value)
                            THEN "lost" ELSE "active"

\* an award that leaves one other active bid active and turns another to lost
C3_Witness ==
    /\ Len(oevLogs) > 0
    /\ oevLogs[Len(oevLogs)].eventName = "AwardedBid"
    /\ LET before == Replay(SubSeq(oevLogs, 1, Len(oevLogs) - 1))
           after == Replay(oevLogs)
       IN  /\ \E i \in DOMAIN before :
                before[i].status = "active" /\ after[i].status = "lost"
           /\ \E i \in DOMAIN before :
                /\ before[i].status = "active"
                /\ before[i].bidId # oevLogs[Len(oevLogs)].bidId
                /\ after[i].status = "active"

(* C2 as stated: for every well-formed sequence of PlacedBid / AwardedBid /
   ExpeditedBidExpiration logs, and every prefix of it, the reconstructed bid
   list holds at most one bid with status 'active'. *)
C2_AtMostOneActive ==
    Cardinality(ActiveBids(buildOevNetworkState(oevLogs, clock))) <= 1

\* the bids the auction house still holds open at time t: placed, not awarded,
\* their expiration not reached
OpenOnChain(logs, t) ==
    {id \in PlacedIds(logs) \ AwardedIds(logs) : ChainExpiration(logs, id) > t}

\* every PlacedBid event was emitted when no earlier bid was open
SerialPlacement(logs) ==
    \A n \in DOMAIN logs :
        logs[n].eventName = "PlacedBid" =>
            OpenOnChain(SubSeq(logs, 1, n - 1), logs[n].at) = {}

(* C2 amended: the reconstructed bid list holds at most one 'active' bid for
   the sequences, and their prefixes, in which every PlacedBid event was
   emitted when no earlier bid was still open (placed, not awarded and its
   expiration not reached). *)
C2_AtMostOneActiveWhenSerial ==
    SerialPlacement(oevLogs) =>
        Cardinality(ActiveBids(buildOevNetworkState(oevLogs, clock))) <= 1

\* a serial sequence of two bids, the first expired without an award, the
\* second active
C2_Witness ==
    /\ SerialPlacement(oevLogs)
    /\ Cardinality(PlacedIds(oevLogs)) >= 2
    /\ AwardedIds(oevLogs) = {}
    /\ Cardinality(ActiveBids(buildOevNetworkState(oevLogs, clock))) = 1

(* C4: terminal states are final during the replay: a bid whose status has
   become 'awarded' or 'lost' keeps that status through every later log and
   through the final expiry pass. *)
C4_TerminalStatesFinal ==
    /\ \A n \in DOMAIN oevLogs :
            LET before == Replay(SubSeq(oevLogs, 1, n - 1))
                after == Replay(SubSeq(oevLogs, 1, n))
            IN  \A i \in DOMAIN before :
                    before[i].status \in {"awarded", "lost"} =>
                        after[i].status = before[i].status
    /\ LET replayed == Replay(oevLogs)
           final == buildOevNetworkState(oevLogs, clock)
       IN  \A i \in DOMAIN replayed :
                replayed[i].status \in {"awarded", "lost"} =>
                    final[i].status = replayed[i].status

(* C13: two calls of buildOevNetworkState on the same cached logs at the same
   clock value return the same bids (ids, statuses, expiration timestamps),
   and the cache holds the same logs after a call as before it. *)
C13_BuildRepeatable ==
    ~ReplayThrows(oevLogs) =>
        LET first == buildOevNetworkState(oevLogs, clock)
            cache == LogsAfterBuild(oevLogs, clock)
            second == buildOevNetworkState(cache, clock)
        IN  /\ cache = oevLogs
            /\ second = first

\* the replay moved a bid's expiration away from that of its PlacedBid log
\* and expired the bid
C13_Witness ==
    /\ ~ReplayThrows(oevLogs)
    /\ \E i \in DOMAIN buildOevNetworkState(oevLogs, clock) :
          LET bid == buildOevNetworkState(oevLogs, clock)[i]
          IN  /\ bid.status = "expired"
              /\ bid.expirationTimestamp # bid.log.expirationTimestamp

----------------------------------------------------------------------------
(* Claims on runAttemptLiquidationLoop of src/src/oev-seeker.ts, checked
   under SpecSeeker *)

\* the bids of this run the auction house still holds open
OpenBids ==
    {k \in DOMAIN chainBids :
        /\ chainBids[k].bidId \notin awarded
        /\ clock < chainBids[k].expirationTimestamp}

(* C1: over every interleaving of the loop's iterations, the invocations that
   outlive the loop's 60-second timeout included, placeBidWithExpiration is
   never submitted while a bid placed earlier in the same run is unexpired
   and not awarded. *)
C1_NoBidWhileOneIsOpen ==
    [][Len(chainBids') > Len(chainBids) => OpenBids = {}]_vars

\* the slot does not hold the bid of an invocation of attemptLiquidation that
\* has issued its staticCall or its aggregate3Value transaction
SlotFreeOfAwardedBid ==
    \A tx \in txs :
        tx.kind \in {"staticCall", "aggregate3Value"} =>
            currentlyActiveBid # inv[tx.by].bid

(* C5: in attemptLiquidation currentlyActiveBid is null at the step that
   issues the staticCall after an award; from then on no step of the
   invocation (verification or execution succeeding, the abort on low profit,
   a throw) writes the slot, and the slot never holds the awarded bid again. *)
C5_SlotClearedBeforeExecution ==
    [][/\ \A i \in DOMAIN inv :
            /\ (inv[i].pc = "awaitAward" /\ inv'[i].pc = "awaitVerify")
                    => currentlyActiveBid' = Null
            /\ (inv[i].pc \in {"awaitVerify", "awaitExec", "sleeping"}
                    /\ inv'[i].pc # inv[i].pc)
                    => currentlyActiveBid' = currentlyActiveBid
       /\ SlotFreeOfAwardedBid
       /\ SlotFreeOfAwardedBid']_vars

\* the execution transaction of an awarded bid was issued and then threw,
\* the slot is null
C5_Witness ==
    \E tx \in txs :
        /\ tx.kind = "aggregate3Value"
        /\ inv[tx.by].pc = "threw"
        /\ currentlyActiveBid = Null

(* C6: an invocation of attemptLiquidation whose staticCall after the award
   returned a profitUsd below MIN_LIQUIDATION_PROFIT_USD has submitted no
   aggregate3Value transaction and no reportFulfillment. *)
C6_NoExecutionOnLowProfit ==
    \A i \in DOMAIN inv :
        \A p \in inv[i].profitUsd :
            p < MIN_LIQUIDATION_PROFIT_USD =>
                ~ \E tx \in txs :
                    /\ tx.by = i
                    /\ tx.kind \in {"aggregate3Value", "reportFulfillment"}

\* an awarded bid whose verification returned less than the minimum: the
\* invocation has returned
C6_Witness ==
    \E i \in DOMAIN inv :
        /\ inv[i].pc = "lowProfit"
        /\ TheBid(inv[i].bid).bidId \in awarded
        /\ \E tx \in txs : tx.by = i /\ tx.kind = "staticCall"
        /\ \E p \in inv[i].profitUsd : p < MIN_LIQUIDATION_PROFIT_USD

(* C7: when the simulated liquidate call of a shortfall account reverts, that
   invocation of findOevLiquidation submits no placeBidWithExpiration and
   leaves currentlyActiveBid unset, however many accounts were scanned
   before the revert. *)
C7_NoBidAfterRevert ==
    \A tx \in txs :
        tx.kind = "placeBidWithExpiration" => tx.note = 0

(* C8: when attemptLiquidation starts at a time later than the bid's
   expirationTimestamp it sets currentlyActiveBid to null and does nothing
   else: it issues no award check, no staticCall and no transaction. *)
C8_ExpiredBidOnlyCleared ==
    [][(/\ loop.pc = "idle" /\ loop'.pc = "awaiting"
        /\ currentlyActiveBid # Null
        /\ clock > TheBid(currentlyActiveBid).expirationTimestamp)
       => /\ currentlyActiveBid' = Null
          /\ inv'[loop'.cur].pc = "expired"
          /\ txs' = txs]_vars

\* attemptLiquidation has just run for a bid that expired before it started
C8_Witness ==
    /\ loop.pc = "awaiting"
    /\ inv[loop.cur].kind = "attempt"
    /\ inv[loop.cur].pc = "expired"
    /\ loop.start > TheBid(inv[loop.cur].bid).expirationTimestamp
    /\ currentlyActiveBid = Null
    /\ ~ \E tx \in txs : tx.by = loop.cur

(* C11: in runAttemptLiquidationLoop an exception thrown by
   attemptLiquidation or findOevLiquidation, or the timeout of go(), is
   caught by the loop, which goes on to its next iteration: no failure of
   either operation ends the loop: the loop is either at the top of a turn
   or awaiting go(), and once the awaited invocation has thrown or the
   timeout has elapsed the step to the next turn is enabled. *)
C11_LoopProceedsAfterFailure ==
    /\ loop.pc \in {"idle", "awaiting"}
    /\ (/\ loop.pc = "awaiting"
        /\ \/ inv[loop.cur].pc = "threw"
           \/ clock - loop.start >= totalTimeoutSeconds)
            => ENABLED (LoopResume \/ LoopTimeout)

\* the loop has taken a new turn after an invocation that threw before
\* any timeout
C11_Witness ==
    /\ loop.pc = "awaiting"
    /\ loop.cur = 2
    /\ inv[1].pc = "threw"
    /\ ticks = 0

----------------------------------------------------------------------------
(* Claims on runBot of src/src/oev-bot.ts, checked under SpecBot *)

\* the bids buildOevNetworkState found active in the logs of the initial fetch
InitiallyActiveBids ==
    LET ids == ActiveBidIds(SubSeq(chainLogs, 1, loop.initial), loop.fetchedAt)
    IN  {ids[k] : k \in DOMAIN ids}

(* C9: in runBot no findOevLiquidation of a run is under way, and so none can
   place a bid, before expediteBidExpirationMaximally has been submitted for
   every bid that buildOevNetworkState classifies as 'active' from the
   initially fetched logs. *)
C9_ExpediteBeforeFirstFind ==
    (\E i \in DOMAIN inv : inv[i].kind = "find") =>
        \A id \in InitiallyActiveBids : ExpediteTx(id) \in txs

(* C10: a failed RPC call while fetching the auction-network logs,
   expediting or refreshing the watched accounts does not end the loop or
   the process. *)
C10_LoopSurvivesFailedRpc == loop.pc # "exited"

----------------------------------------------------------------------------
(* Claims on the watched accounts, checked under SpecWatch *)

Elements(list) == {list[k] : k \in 1..Len(list)}
DuplicateFree(list) == \A j, k \in 1..Len(list) : list[j] = list[k] => j = k

(* C12: after initialization every update of the watched accounts, by
   runAccountFetcherLoop or by the watch-list step of runBot, leaves
   targetChainData.borrowers without duplicates and holding every address it
   held before the update; no step of any loop removes an address. *)
C12_BorrowersOnlyGrow ==
    [][/\ Elements(borrowers) \subseteq Elements(borrowers')
       /\ fetcher'.updates # fetcher.updates => DuplicateFree(borrowers')]_vars

\* the fetcher loop has updated a store that held two accounts
C12_Witness ==
    /\ fetcher.pc = "sleeping"
    /\ fetcher.updates = 1
    /\ Len(borrowers) = 2

----------------------------------------------------------------------------
(* Claims on the pure functions, checked under SpecFunctions *)

TheCall == CHOOSE c \in input : TRUE
TheResult == CHOOSE r \in output : TRUE
Called(fn) == input # Null /\ TheCall.fn = fn

(* C14 as stated: decodeBidDetails(encodeBidDetails(x)) equals x field by
   field (oevProxyAddress, conditionType, conditionValue,
   updateSenderAddress, nonce) for every tuple x that encodes. *)
C14_RoundTripIsIdentity ==
    Called("decodeBidDetails(encodeBidDetails)") => TheResult = TheCall.args

\* the spellings decodeBidDetails returns: EIP-55 addresses, lower-case nonce
Canonical(x) ==
    /\ x.oevProxyAddress.spelling = "checksum"
    /\ x.updateSenderAddress.spelling = "checksum"
    /\ x.nonce.spelling = "lower"

(* C14 amended: for every tuple x that encodes, decodeBidDetails(
   encodeBidDetails(x)) has the conditionType and conditionValue of x and
   spells the same two addresses and the same nonce as x, the addresses in
   EIP-55 checksum case and the nonce in lower case; it equals x field by
   field when x is spelled that way, as the tuples of findOevLiquidation
   are. *)
C14_RoundTripUpToSpelling ==
    Called("decodeBidDetails(encodeBidDetails)") =>
        LET x == TheCall.args
            y == TheResult
        IN  /\ y.conditionType = x.conditionType
            /\ y.conditionValue = x.conditionValue
            /\ y.oevProxyAddress = getAddress(x.oevProxyAddress)
            /\ y.updateSenderAddress = getAddress(x.updateSenderAddress)
            /\ y.nonce = hexlify(x.nonce.value)
            /\ Canonical(x) => y = x

\* a canonical tuple with a negative condition value went through
C14_Witness ==
    /\ Called("decodeBidDetails(encodeBidDetails)")
    /\ Canonical(TheCall.args)
    /\ TheCall.args.conditionValue < 0
    /\ TheResult = TheCall.args

(* C15: in findOevLiquidation an account of the watch list is among the
   shortfall candidates if and only if its shortfall under the transmuted
   price is greater than 0: an account with shortfall 0 is left out, one with
   shortfall 1 is taken. *)
C15_CandidateIffShortfall ==
    Called("accountsWithShortfall") =>
        \A k \in DOMAIN TheCall.args :
            (\E j \in DOMAIN TheResult : TheResult[j].borrower = k)
                <=> TheCall.args[k].shortfall > 0

\* a watch list with shortfalls 0 and 1: one candidate
C15_Witness ==
    /\ Called("accountsWithShortfall")
    /\ \E j, k \in DOMAIN TheCall.args :
          TheCall.args[j].shortfall = 0 /\ TheCall.args[k].shortfall = 1
    /\ \E j \in DOMAIN TheResult : TheResult[j].shortfall = 1
    /\ \A j \in DOMAIN TheResult : TheResult[j].shortfall # 0

(* C16: findOevLiquidation takes the shortfall candidates in non-increasing
   order of shortfall: of two candidates with different shortfalls the one
   with the larger shortfall is evaluated first, whatever the order of the
   watch list. *)
C16_LargerShortfallFirst ==
    Called("accountsWithShortfall") =>
        \A j, k \in DOMAIN TheResult :
            TheResult[j].shortfall > TheResult[k].shortfall => j < k

\* B with 50 stands before A with 100 in the watch list, C has 0: the
\* candidates are A, then B
C16_Witness ==
    /\ Called("accountsWithShortfall")
    /\ Len(TheCall.args) = 3
    /\ TheCall.args[1].shortfall = 50
    /\ TheCall.args[2].shortfall = 0
    /\ TheCall.args[3].shortfall = 100
    /\ TheResult = <<TheCall.args[3], TheCall.args[1]>>

(* C17: the repay amount findOevLiquidation passes to the liquidate call is
   the minimum of its three bounds (close-factor share of the ETH borrow,
   balance of the liquidator contract, buffered share of the largest
   collateral): it is one of the three and exceeds none of them, for every
   triple. *)
C17_RepayIsMinOfBounds ==
    Called("maxBorrowRepay") =>
        /\ \E k \in 1..3 : TheResult = TheCall.args[k]
        /\ \A k \in 1..3 : TheResult <= TheCall.args[k]

\* the smallest bound is the second of three different ones
C17_Witness ==
    /\ Called("maxBorrowRepay")
    /\ TheCall.args = <<2, 1, 3>>
    /\ TheResult = 1

(* C18: getPercentageValue(value, percent) is value * percent / 100 in
   integer arithmetic rounded toward zero, for every value >= 0 and every
   percent of at most ten decimals; getPercentageValue(1995, 100.2) is
   1995 * 1002 / 1000 = 1998. *)
C18_PercentageExact ==
    Called("getPercentageValue") =>
        LET value == TheCall.args[1]
            percent == TheCall.args[2]
        IN  TheResult = (value * percent.units) \div Pow(10, percent.decimals + 2)

(* C19: getAccountsToWatch returns in `borrowers` every address, of every
   batch of the borrowers found in the logs, that checkHealthOfAccounts
   selected: ETH borrow of at least MIN_ETH_BORROW and a shortfall, or excess
   liquidity not above the 3% buffer. *)
C19_SelectedAreReturned ==
    Called("getAccountsToWatch") =>
        \A k \in DOMAIN TheCall.args :
            WorthWatching(TheCall.args[k].state)
                => TheCall.args[k].borrower \in Elements(TheResult)

\* the accounts of a scan whose simulated profitUsd exceeds
\* MIN_LIQUIDATION_PROFIT_USD
AboveThreshold(accounts) ==
    {k \in DOMAIN accounts :
        accounts[k].hasEthBorrow /\ accounts[k].profitUsd > MIN_LIQUIDATION_PROFIT_USD}

ScanCompleted(accounts) ==
    \A k \in DOMAIN accounts : accounts[k].hasEthBorrow => accounts[k].liquidate = "ok"

(* C20: when findOevLiquidation completes its scan (no simulation failed),
   it bids for the account of greatest simulated profit (profitEth in
   oev-seeker.ts, profitUsd in oev-bot.ts) among the shortfall accounts whose
   profitUsd exceeds MIN_LIQUIDATION_PROFIT_USD; of accounts with that same
   profit the one earliest in the sorted order is kept; when no account
   exceeds the threshold no bid is placed. *)
C20_BidsOnGreatestProfit ==
    /\ (Called("findOevLiquidation") /\ ScanCompleted(TheCall.args)) =>
          LET accounts == TheCall.args
              above == AboveThreshold(accounts)
          IN  IF above = {} THEN TheResult.best = {} /\ TheResult.pc # "placing"
              ELSE /\ TheResult.pc = "placing"
                   /\ \E k \in above :
                         /\ TheResult.best = {accounts[k]}
                         /\ \A j \in above :
                               /\ accounts[j].profitEth <= accounts[k].profitEth
                               /\ accounts[j].profitEth = accounts[k].profitEth => k <= j
    /\ (Called("findOevLiquidation (oev-bot.ts)") /\ ScanCompleted(TheCall.args)) =>
          LET accounts == TheCall.args
              above == AboveThreshold(accounts)
          IN  IF above = {} THEN TheResult.best = {} /\ TheResult.pc # "placing"
              ELSE /\ TheResult.pc = "placing"
                   /\ \E k \in above :
                         /\ TheResult.best = {accounts[k]}
                         /\ \A j \in above :
                               /\ accounts[j].profitUsd <= accounts[k].profitUsd
                               /\ accounts[j].profitUsd = accounts[k].profitUsd => k <= j

\* three accounts: profit below the threshold, then two of the same profit
\* above it; the bid is for the second account
C20_Witness ==
    /\ Called("findOevLiquidation")
    /\ Len(TheCall.args) = 3
    /\ ScanCompleted(TheCall.args)
    /\ AboveThreshold(TheCall.args) = {2, 3}
    /\ TheCall.args[2].profitEth = TheCall.args[3].profitEth
    /\ TheResult.pc = "placing"
    /\ TheResult.best = {TheCall.args[2]}

(* C21: in findOevLiquidation a shortfall account with no ETH borrow (an
   oEtherV2 borrow balance of zero) is skipped: no liquidate simulation is
   issued for it, it does not become the best candidate, and the scan goes on
   with the next account. *)
C21_NoEthBorrowSkipped ==
    Called("findOevLiquidation") =>
        \A k \in DOMAIN TheCall.args :
            TheCall.args[k].ethBorrowBalance = 0 =>
                /\ k \notin TheResult.simulated
                /\ TheResult.best # {TheCall.args[k]}

(* C22: the bid amount submitted by findOevLiquidation of oev-bot.ts is a
   fixed percentage of the selected candidate's estimated profit
   (getPercentageValue of the best liquidation's profit), so that two scans
   with different estimated profits submit different bid amounts. *)
C22_BidIsPercentageOfProfit ==
    Called("bidAmount (oev-bot.ts)") =>
        \A scan \in 1..2 :
            TheResult[scan] = {getPercentageValue(TheCall.args[scan], TheCall.args[3])}

(* C23: a bid placed by findOevLiquidation has conditionType GTE and a
   conditionValue equal to the transmutation value of the same scan's
   simulations, on chain as in the store, and the bidDetails stored in
   currentlyActiveBid are the ones that were encoded, hashed into the bidId
   and submitted. *)
C23_BidDetailsAreTheScans ==
    Called("placeBid") =>
        LET stored == TheResult.currentlyActiveBid
            sent == TheResult.placeBidWithExpiration.bidDetails
        IN  /\ stored.bidDetails.conditionType = BID_CONDITION.GTE
            /\ stored.bidDetails.conditionValue = TheResult.dapiTransmutationCalls
            /\ decodeBidDetails(sent).conditionType = BID_CONDITION.GTE
            /\ decodeBidDetails(sent).conditionValue = TheResult.dapiTransmutationCalls
            /\ sent = encodeBidDetails(stored.bidDetails)
            /\ stored.bidId = deriveBidId("wallet", "bidTopic", sent)

(* C23 witness: a scan at price 6 placed and stored its bid *)
C23_Witness ==
    /\ Called("placeBid")
    /\ TheCall.args[1] = MaxPrice
    /\ TheResult.currentlyActiveBid.bidDetails.conditionValue = MaxPrice

(* C24: after pruneLogs the log cache holds no AwardedBid entry whose award
   timestamp is more than 25 hours before the current time, and what is kept
   is a contiguous suffix of the previous cache in unchanged order. *)
C24_PrunedCacheHasNoOldAward ==
    Called("pruneLogs") =>
        /\ \A n \in DOMAIN TheResult :
              ~(/\ TheResult[n].eventName = "AwardedBid"
                /\ TheResult[n].at < PruneNow - 25 * 60 * 60)
        /\ \E from \in 1..Len(TheCall.args) + 1 :
              TheResult = SubSeq(TheCall.args, from, Len(TheCall.args))

(* C25: buildOevNetworkState returns status 'expired' for exactly the bids
   that the log replay leaves 'active' and whose expirationTimestamp, as
   placed or as last expedited, is less than minBidTimeToLiveSeconds after
   the current time; a bid with at least that much left stays 'active', and
   awarded and lost bids keep their status. *)
C25_ExpiredIffActiveAndShortLived ==
    ~ReplayThrows(oevLogs) =>
        LET replayed == Replay(oevLogs)
            bids == buildOevNetworkState(oevLogs, clock)
            left(i) == ChainExpiration(oevLogs, bids[i].bidId) - clock
        IN  /\ DOMAIN bids = DOMAIN replayed
            /\ \A i \in DOMAIN bids :
                  /\ bids[i].bidId = replayed[i].bidId
                  /\ bids[i].status = "expired" <=>
                        (replayed[i].status = "active" /\ left(i) < minBidTimeToLiveSeconds)
                  /\ (replayed[i].status = "active" /\ left(i) >= minBidTimeToLiveSeconds)
                        => bids[i].status = "active"
                  /\ replayed[i].status \in {"awarded", "lost"}
                        => bids[i].status = replayed[i].status

(* C25 witness: one bid is out of time and expired, another has exactly
   minBidTimeToLiveSeconds left and is active *)
C25_Witness ==
    /\ ~ReplayThrows(oevLogs)
    /\ LET bids == buildOevNetworkState(oevLogs, clock)
       IN  /\ \E i \in DOMAIN bids : bids[i].status = "expired"
           /\ \E i \in DOMAIN bids :
                 /\ bids[i].status = "active"
                 /\ ChainExpiration(oevLogs, bids[i].bidId) - clock = minBidTimeToLiveSeconds

(* C26: in expediteActiveBids of oev-seeker.ts a failed expedite transaction
   for one active bid neither prevents the attempts for the other active bids
   nor aborts startup: every active bid gets exactly one expedite attempt and
   runSeeker starts its three loops. *)
C26_ExpediteFailureIsContained ==
    Called("runSeeker") =>
        LET bids == buildOevNetworkState(TheCall.args[1], 0)
            active == {bids[i].bidId : i \in {j \in DOMAIN bids : bids[j].status = "active"}}
            attempts == TheResult.attempts
        IN  /\ {attempts[n] : n \in DOMAIN attempts} = active
            /\ Len(attempts) = Cardinality(active)
            /\ TheResult.started = SeekerLoops

(* C26 witness: two active bids, the expedite transaction of the first one
   failed *)
C26_Witness ==
    /\ Called("runSeeker")
    /\ Len(TheResult.attempts) = 2
    /\ TheCall.args[2][TheResult.attempts[1]] = "rejected"

----------------------------------------------------------------------------
(* Claims on attemptLiquidation, checked under SpecSeeker *)

ReportsBy(set, i) == {t \in set : t.kind = "reportFulfillment" /\ t.by = i}

(* C27: reportFulfillment for a bid is submitted only after the liquidation
   transaction for that bid was confirmed and the fixed delay has passed, for
   the bid and the transaction of the same invocation; nothing is reported
   when the verification ended the attempt or the execution transaction
   failed. *)
C27_ReportOnlyAfterConfirmedLiquidation ==
    [][\A i \in DOMAIN inv :
          /\ \A t \in ReportsBy(txs', i) \ ReportsBy(txs, i) :
                /\ inv[i].pc = "sleeping"
                /\ clock - inv[i].sleptAt >= reportFulfillmentDelaySeconds
                /\ t.bidId = TheBid(inv[i].bid).bidId
                /\ \E e \in txs : /\ e.kind = "aggregate3Value"
                                   /\ e.by = i
                                   /\ e.bidId = t.bidId
          /\ inv'[i].pc = "sleeping" /\ inv[i].pc # "sleeping" => inv[i].pc = "awaitExec"
          /\ (inv[i].pc \in {"awaitVerify", "awaitExec"} /\ inv'[i].pc \in {"lowProfit", "threw"})
                => ReportsBy(txs', i) = {}
          /\ inv[i].pc \in Final => ReportsBy(txs', i) = ReportsBy(txs, i)]_vars

(* C27 witness: a fulfillment was reported *)
C27_Witness ==
    \E i \in DOMAIN inv : inv[i].pc = "reported" /\ ReportsBy(txs, i) # {}

(* C28: when attemptLiquidation runs before the bid's expirationTimestamp and
   its query returns no AwardedBid event for the bidId, it returns with the
   store as it was (a bid in currentlyActiveBid is still there) and without
   having sent a transaction. *)
C28_NotAwardedLeavesBidPending ==
    [][\A i \in DOMAIN inv :
          (/\ inv[i].kind = "attempt"
           /\ inv[i].pc = "awaitAward"
           /\ inv'[i].pc \notin {"awaitAward", "threw"}
           /\ TheBid(inv[i].bid).bidId \notin awarded)
          => /\ inv'[i].pc = "notAwarded"
             /\ currentlyActiveBid' = currentlyActiveBid
             /\ txs' = txs
             /\ oevLogs' = oevLogs]_vars

(* C28 witness: an attempt found no award and its bid is still in the slot *)
C28_Witness ==
    \E i \in DOMAIN inv :
        /\ inv[i].pc = "notAwarded"
        /\ currentlyActiveBid = inv[i].bid
        /\ \A t \in txs : t.by # i

----------------------------------------------------------------------------
(* Claims on the award query of attemptLiquidation, checked under
   SpecFunctions *)

(* C29: when the head is beyond the bid's recorded blockNumber and an
   AwardedBid event of the bid lies in a block from blockNumber to the head,
   attemptLiquidation finds it: the windows it queries, none wider than
   10,000 blocks, leave out no block of that range. *)
C29_AwardInRangeIsFound ==
    Called("queryAward") =>
        LET blockNumber == TheCall.args[1]
            head == TheCall.args[2]
            awardBlocks == TheCall.args[3]
            queried == TheResult.queried
        IN  head > blockNumber =>
               /\ awardBlocks # {} => TheResult.bidAwardEvent = awardBlocks
               /\ \A n \in DOMAIN queried :
                     queried[n].toBlock - queried[n].fromBlock <= logChunkBlocks
               /\ awardBlocks = {} =>
                     \A b \in blockNumber..head :
                         \E n \in DOMAIN queried :
                             queried[n].fromBlock <= b /\ b <= queried[n].toBlock

(* C29 witness: the award lies in the last block of the first window of a
   query of more than one window *)
C29_Witness ==
    /\ Called("queryAward")
    /\ TheCall.args[2] > TheCall.args[1] + logChunkBlocks
    /\ TheCall.args[3] = {TheCall.args[1] + logChunkBlocks}
    /\ TheResult.bidAwardEvent = TheCall.args[3]

----------------------------------------------------------------------------
(* Claims on runAttemptLiquidationLoop, checked under SpecSeeker *)

(* C30: when a call awaited inside attemptLiquidation or findOevLiquidation
   never returns, runAttemptLiquidationLoop still begins its next turn: once
   the 60 seconds of the total timeout have passed since the turn began, the
   step that ends the await of go() is enabled although the invocation has
   not returned, and from the top of the loop the next turn can begin
   whatever earlier invocations are still awaiting. *)
C30_StuckCallDoesNotBlockLoop ==
    /\ (/\ loop.pc = "awaiting"
        /\ inv[loop.cur].pc \notin Final
        /\ clock - loop.start >= totalTimeoutSeconds)
            => ENABLED LoopTimeout
    /\ (/\ loop.pc = "idle"
        /\ Len(inv) < MaxInvocations)
            => ENABLED LoopIterate

(* C30 witness: the loop is at the top of a turn while the invocation of the
   turn before is still awaiting a call, a total timeout after it began *)
C30_Witness ==
    /\ loop.pc = "idle"
    /\ Len(inv) < MaxInvocations
    /\ clock >= totalTimeoutSeconds
    /\ \E i \in DOMAIN inv : inv[i].pc \notin Final

----------------------------------------------------------------------------
(* Claims on invocations that outlive their turn, checked under
   SpecSeekerDeep *)

(* C31: attemptLiquidation sets currentlyActiveBid to null only when the slot
   still holds the bid whose expiry or award the invocation observed: an
   invocation that outlived the loop's timeout never clears another, later
   bid from the slot. *)
C31_ClearsOnlyItsOwnBid ==
    [][\A i \in DOMAIN inv :
          (/\ inv[i].kind = "attempt"
           /\ inv[i].pc = "awaitAward"
           /\ inv'[i].pc = "awaitVerify"
           /\ currentlyActiveBid # Null
           /\ currentlyActiveBid' = Null)
          => currentlyActiveBid = inv[i].bid]_vars

(* C32: for each awarded bid at most one aggregate3Value execution
   transaction is submitted, in every interleaving of the loop's turns,
   attemptLiquidation invocations that go on after the loop's timeout
   included. *)
C32_OneExecutionPerBid ==
    \A t \in txs, u \in txs :
        (/\ t.kind = "aggregate3Value"
         /\ u.kind = "aggregate3Value"
         /\ t.bidId = u.bidId)
        => t.by = u.by

----------------------------------------------------------------------------
(* Claims on the log cache of runBot, checked under SpecFunctions *)

\* each AwardedBid or ExpeditedBidExpiration entry comes after the PlacedBid
\* entry of its bidId
PlacedFirst(logs) ==
    \A n \in DOMAIN logs :
        logs[n].eventName # "PlacedBid" =>
            \E m \in 1..(n - 1) : /\ logs[m].eventName = "PlacedBid"
                                  /\ logs[m].bidId = logs[n].bidId

(* C33: in every log cache runBot holds, after the initial fetch, the
   appended fetches and pruneLogs, each AwardedBid or ExpeditedBidExpiration
   entry comes after the PlacedBid entry of its bidId, so that
   buildOevNetworkState finds every bid it looks up and does not throw: a
   cache with that order still has it after pruneLogs. *)
C33_CacheReplaysWithoutThrowing ==
    (Called("pruneLogs") /\ PlacedFirst(TheCall.args)) =>
        /\ PlacedFirst(TheResult)
        /\ ~ReplayThrows(TheResult)

(* C34: each time runBot moves lastFetchedBlock on to endBlock, every
   matching event of every block after the previous lastFetchedBlock up to
   endBlock has been appended to the cache exactly once, whatever the
   distance: one block, or more than 10,000. *)
C34_FetchedExactlyOnce ==
    Called("fetchOevNetworkLogs") =>
        LET eventBlocks == TheCall.args[1]
            appended == TheResult.appended
            times(b) == Cardinality({n \in DOMAIN appended : appended[n] = b})
        IN  /\ TheResult.lastFetchedBlock = TheCall.args[3]
            /\ \A b \in eventBlocks :
                  times(b) = IF TheCall.args[2] < b /\ b <= TheCall.args[3] THEN 1 ELSE 0

(* C35: getInitialOevNetworkLogs terminates for every history of the auction
   network, a chain whose block at height 0 is younger than 25 hours
   included. *)
C35_InitialFetchTerminates ==
    Called("getInitialOevNetworkLogs") => TheResult.pc = "returned"

----------------------------------------------------------------------------
(* Claims on the loop and the bid it stores, checked under SpecSeeker *)

(* C36: with runAttemptLiquidationLoop scheduled fairly and the wall clock
   advancing, a bid stored in currentlyActiveBid is eventually removed from
   the slot even if every call attemptLiquidation makes to the auction
   network fails: while the slot holds a bid, the await of go() can end once
   the invocation has returned or thrown or the total timeout has elapsed,
   the next turn can then begin, and a turn that begins at or after the
   bid's expirationTimestamp always leaves the slot empty. *)
C36_StoredBidIsEventuallyRemoved ==
    currentlyActiveBid # Null =>
        LET bid == TheBid(currentlyActiveBid)
        IN  /\ (/\ loop.pc = "awaiting"
                /\ \/ inv[loop.cur].pc \in Final
                   \/ clock - loop.start >= totalTimeoutSeconds)
                    => ENABLED (LoopResume \/ LoopTimeout)
            /\ (/\ loop.pc = "idle"
                /\ Len(inv) < MaxInvocations)
                    => /\ ENABLED LoopIterate
                       /\ clock >= bid.expirationTimestamp
                             => ~ ENABLED (LoopIterate /\ currentlyActiveBid' # Null)

(* C36 witness: the bid that findOevLiquidation stored has been removed from
   the slot by the turn that began once the clock had reached its
   expirationTimestamp, no award of it having been detected *)
C36_Witness ==
    /\ currentlyActiveBid = Null
    /\ \E i \in DOMAIN inv :
          /\ inv[i].kind = "attempt" /\ inv[i].pc = "expired"
          /\ clock >= TheBid(inv[i].bid).expirationTimestamp
          /\ \E j \in 1..(i - 1) : inv[j].pc = "placed" /\ inv[j].bid = inv[i].bid

----------------------------------------------------------------------------
(* Claims on the block number stored with a bid, checked under SpecFunctions *)

(* C37: the blockNumber stored with an active bid is read from the auction
   network before the placement transaction is submitted: it is never greater
   than the block that contains the bid's PlacedBid event, and the bid's
   AwardedBid event lies at or after the block where attemptLiquidation
   starts its search. *)
C37_SearchStartsBeforePlacement ==
    Called("storeActiveBid") =>
        /\ TheResult.blockNumber = TheCall.args[1]
        /\ TheResult.blockNumber <= TheResult.placedBlock
        /\ TheResult.startBlockNumber <= TheResult.awardBlock

(* C37 witness: the bid was awarded in the block of its placement and the
   head had moved on before wait(1) returned *)
C37_Witness ==
    /\ Called("storeActiveBid")
    /\ TheCall.args[3] > 0
    /\ TheResult.awardBlock = TheResult.placedBlock
    /\ TheResult.startBlockNumber < TheResult.awardBlock

----------------------------------------------------------------------------
(* Claims on the accounts of findOevLiquidation, checked under SpecFunctions *)

(* C38: in findOevLiquidation each decoded (liquidity, shortfall) tuple is
   paired with the borrower whose getAccountLiquidity call produced it, for
   every length of the watch list, lists of several batches included, and
   also when the account fetcher updates the store's borrowers while the
   batches are awaited; every borrower the invocation read has its pair. *)
C38_TuplePairedWithItsBorrower ==
    Called("pairAccounts") =>
        LET watched == TheCall.args[1]
            accounts == TheResult.accounts
        IN  /\ Len(accounts) = Len(watched)
            /\ \A index \in DOMAIN accounts :
                  /\ accounts[index].borrower = watched[index]
                  /\ accounts[index].liquidity.of = watched[index]
                  /\ accounts[index].liquidity.shortfall
                        = TheCall.args[3][watched[index]]

(* C38 witness: a watch list of more than one batch, its last borrower with a
   shortfall, and a store that gained a borrower during the batches *)
C38_Witness ==
    /\ Called("pairAccounts")
    /\ Len(TheCall.args[1]) > chunkSize
    /\ Len(TheResult.storeBorrowers) > Len(TheCall.args[1])
    /\ TheResult.accounts[Len(TheResult.accounts)].liquidity.shortfall > 0

============================================================================
